---- MODULE Spec2Model ----
(***************************************************************************)
(* Wayback title extractor: the resilient fetcher (fetchRetry), the index  *)
(* query (getCdxRows), the domain processor (processDomain on the server,  *)
(* run in the command-line tool) and the streaming endpoint                *)
(* POST /api/extract, modelled from src/server.js and src/unnamed/part_000.*)
(***************************************************************************)
EXTENDS Integers, Sequences, FiniteSets, TLC

VARIABLES
    call,     \* SpecFetch: the frame of one fetchRetry invocation
    hist,     \* SpecFetch: the upstream's answers to that invocation, in order
    entry,    \* which program runs: "processDomain", "run" (CLI) or "stream"
    req,      \* the request: domains, n, unique, analyzeContent, apiKey
    pos,      \* POST /api/extract: index of the domain the for-loop is at
    dom,      \* the processDomain / run activation of the current domain
    stream,   \* POST /api/extract: the lines written to the response so far
    resp,     \* the response of the endpoint: status sent, whether it ended
    bulk,     \* POST /api/v1/extract: the domain tasks, results, errors, body
    ui        \* the page (waybackApp): what the reader holds, results, errors

vars == <<call, hist, entry, req, pos, dom, stream, resp, bulk, ui>>

(***************************************************************************)
(* Bounds of the model.                                                    *)
(***************************************************************************)
MaxRetries == 3      \* SpecFetch tries every retry bound 0..MaxRetries
MaxRows == 2         \* data rows of an index response (processDomain, run)
MaxDomains == 2      \* domains of a streamed batch
StreamRows == 1      \* data rows of an index response in a streamed batch

(***************************************************************************)
(* Program constants.                                                      *)
(***************************************************************************)
DefaultRetries == 3
DefaultBackoffMs == 400
BodyLimit == 200

Min(a, b) == IF a < b THEN a ELSE b

Last(s) == s[Len(s)]

(***************************************************************************)
(* Strings that the code trims are sequences of one-character strings.     *)
(***************************************************************************)
RECURSIVE TrimStart(_)
TrimStart(s) == IF s # <<>> /\ Head(s) = " " THEN TrimStart(Tail(s)) ELSE s

RECURSIVE TrimEnd(_)
TrimEnd(s) ==
    IF s # <<>> /\ s[Len(s)] = " " THEN TrimEnd(SubSeq(s, 1, Len(s) - 1)) ELSE s

Trim(s) == TrimEnd(TrimStart(s))

(***************************************************************************)
(* Upstream answers.  kind "transport": the request failed (code names the *)
(* failure); kind "http": a response with a status and a body.  A body is  *)
(* text of len characters, JSON (rows), HTML (doc), or unreadable.         *)
(***************************************************************************)
NoDoc == [titles |-> <<>>, description |-> <<>>, canonical |-> <<>>,
          robots |-> <<>>, ogTitle |-> <<>>, ogDescription |-> <<>>, h1 |-> 0]

TextBody(n) == [t |-> "text", len |-> n, rows |-> <<>>, doc |-> NoDoc]
Unreadable == [t |-> "unreadable", len |-> 0, rows |-> <<>>, doc |-> NoDoc]
JsonBody(rows) == [t |-> "json", len |-> 0, rows |-> rows, doc |-> NoDoc]
NotJson == [t |-> "notjson", len |-> 0, rows |-> <<>>, doc |-> NoDoc]
HtmlBody(d) == [t |-> "html", len |-> 0, rows |-> <<>>, doc |-> d]

Transport(code) == [kind |-> "transport", code |-> code, status |-> 0, body |-> TextBody(0)]
Http(status, body) == [kind |-> "http", code |-> "", status |-> status, body |-> body]

\* res.ok of node-fetch: status in the range 200-299
Ok(o) == o.kind = "http" /\ o.status >= 200 /\ o.status <= 299

(***************************************************************************)
(* Errors.  Undefined is the value of `let lastErr;` before any catch.     *)
(***************************************************************************)
Undefined == [kind |-> "undefined", code |-> "", status |-> 0, url |-> <<>>, text |-> 0]

TransportError(o) ==
    [kind |-> "transport", code |-> o.code, status |-> 0, url |-> <<>>, text |-> 0]

\* text.slice(0, 200) on a body text of n characters keeps Min(n, 200) of them
Slice200(n) == IF n > BodyLimit THEN BodyLimit ELSE n

\* await res.text().catch(() => "")
ReadText(o) == IF o.body.t = "text" THEN o.body.len ELSE 0

\* new Error(`HTTP ${res.status} for ${url}\n${text.slice(0, 200)}`)
HttpError(o, url) ==
    [kind |-> "http", code |-> "", status |-> o.status, url |-> url,
     text |-> Slice200(ReadText(o))]

(***************************************************************************)
(* fetchRetry(url, opts, retries, backoffMs), src/server.js 33-62 and the  *)
(* identical copy src/unnamed/part_000 94-124.  A frame is at pc "fetch"   *)
(* (a request is in flight), "sleep" (a backoff timer is pending),         *)
(* "returned" (res holds the response) or "thrown" (lastErr is raised).    *)
(* nreq counts the requests issued, waits lists the backoff timers set.    *)
(***************************************************************************)
Pow2(n) == 2 ^ n

\* Math.pow(i, 2) in place of Math.pow(2, i)
BackoffSquared(f) == f.backoffMs * (f.i ^ 2)

\* backoffMs * Math.pow(2, i)
Backoff(f) == f.backoffMs * Pow2(f.i)

\* await sleep(backoffMs * Math.pow(2, i))
Sleep(f) == [f EXCEPT !.pc = "sleep", !.waits = Append(@, Backoff(f))]

\* a loop that runs once more than `i <= retries` allows
IterateOnceMore(f) ==
    LET h == [f EXCEPT !.i = @ + 1]
    IN IF h.i <= h.retries + 1
         THEN [h EXCEPT !.pc = "fetch", !.nreq = @ + 1]
         ELSE [h EXCEPT !.pc = "thrown"]

\* i++; i <= retries ? next attempt (fetch issued) : throw lastErr
Iterate(f) ==
    LET h == [f EXCEPT !.i = @ + 1]
    IN IF h.i <= h.retries
         THEN [h EXCEPT !.pc = "fetch", !.nreq = @ + 1]
         ELSE [h EXCEPT !.pc = "thrown"]

\* a catch block that keeps the first error: lastErr = lastErr || err
CatchKeepFirst(f, err) ==
    LET g == [f EXCEPT !.lastErr = IF @ = Undefined THEN err ELSE @]
    IN IF g.i < g.retries THEN Sleep(g) ELSE Iterate(g)

\* catch (err) { lastErr = err; if (i < retries) { await sleep(...); continue; } }
Catch(f, err) ==
    LET g == [f EXCEPT !.lastErr = err]
    IN IF g.i < g.retries THEN Sleep(g) ELSE Iterate(g)

\* the body of the try block once `await fetch(...)` has settled with o
OnResponse(f, o) ==
    IF o.kind = "transport" THEN Catch(f, TransportError(o))
    ELSE IF Ok(o) THEN [f EXCEPT !.pc = "returned", !.res = o]
    ELSE IF (o.status = 429 \/ o.status >= 500) /\ f.i < f.retries THEN Sleep(f)
    ELSE Catch(f, HttpError(o, f.url))

\* the backoff timer fires: continue
OnTimer(f) == Iterate(f)

NoResponse == Http(0, TextBody(0))

\* entry of fetchRetry up to its first await: i = 0, first request issued
FetchRetry(url, retries, backoffMs) ==
    LET f == [url |-> url, retries |-> retries, backoffMs |-> backoffMs,
              i |-> 0, lastErr |-> Undefined, res |-> NoResponse,
              nreq |-> 0, waits |-> <<>>, pc |-> "fetch"]
    IN IF 0 <= retries THEN [f EXCEPT !.nreq = 1] ELSE [f EXCEPT !.pc = "thrown"]

NoCall == [FetchRetry(<<>>, 0, 0) EXCEPT !.pc = "none", !.nreq = 0]

(***************************************************************************)
(* getCdxRows(domain, n, unique), src/server.js 64-86 and                  *)
(* src/unnamed/part_000 127-156.  A URL is the sequence of its parts.      *)
(***************************************************************************)
\* a query that never asks the index to collapse
CdxUrlNeverCollapses(domain, n, unique) ==
    <<"https://web.archive.org/cdx/search/cdx", "url">> \o domain
      \o <<"output", "json", "filter", "mimetype:text/html",
           "filter", "statuscode:200",
           "fl", "timestamp,original,mimetype,statuscode,digest,length",
           "fastLatest", "true", "limit", "-", ToString(n)>>

\* a query whose limit counts from the oldest capture
CdxUrlOldestFirst(domain, n, unique) ==
    <<"https://web.archive.org/cdx/search/cdx", "url">> \o domain
      \o <<"output", "json", "filter", "mimetype:text/html",
           "filter", "statuscode:200",
           "fl", "timestamp,original,mimetype,statuscode,digest,length",
           "fastLatest", "true", "limit", ToString(n)>>
      \o (IF unique THEN <<"collapse", "digest">> ELSE <<>>)

CdxUrl(domain, n, unique) ==
    <<"https://web.archive.org/cdx/search/cdx", "url">> \o domain
      \o <<"output", "json", "filter", "mimetype:text/html",
           "filter", "statuscode:200",
           "fl", "timestamp,original,mimetype,statuscode,digest,length",
           "fastLatest", "true", "limit", "-", ToString(n)>>
      \o (IF unique THEN <<"collapse", "digest">> ELSE <<>>)

\* r[k] of a JavaScript array: undefined past the end
At(r, k) == IF k <= Len(r) THEN r[k] ELSE "undefined"

\* Number(r[5] ?? 0) on the decimal strings the index sends
ToNumber(s) ==
    CASE s = "1024" -> 1024
      [] s = "512" -> 512
      [] s = "undefined" -> 0
      [] OTHER -> -1

RowRecord(r) ==
    [timestamp |-> At(r, 1), original |-> At(r, 2), mimetype |-> At(r, 3),
     statuscode |-> At(r, 4), digest |-> At(r, 5), length |-> ToNumber(At(r, 6))]

\* a parser that takes the header for a capture
ParseRowsKeepsHeader(json) == [k \in 1..Len(json) |-> RowRecord(json[k])]

\* json.slice(1).map((r) => ({...}))
ParseRows(json) ==
    LET rows == IF json = <<>> THEN <<>> ELSE Tail(json)
    IN [k \in 1..Len(rows) |-> RowRecord(rows[k])]

\* makeIdUrl(timestamp, original)
MakeIdUrl(timestamp, original) ==
    <<"https://web.archive.org/web/", timestamp, "id_/", original>>

(***************************************************************************)
(* extractFromSnapshot, src/server.js 92-127 and part_000 164-179: the     *)
(* fields read from a fetched document.  A document lists, per selector,   *)
(* the values of the matching elements in document order.                  *)
(***************************************************************************)
\* $(sel).attr(attr) || ""
Pick(values) == IF values = <<>> THEN <<>> ELSE values[1]

\* an extraction that gives up on a document without a <title>
ExtractNeedsTitle(doc) ==
    IF doc.titles = <<>>
      THEN [title |-> <<>>, description |-> <<>>, canonical |-> <<>>, robots |-> <<>>,
            og_title |-> <<>>, og_description |-> <<>>, h1_count |-> 0]
      ELSE [title |-> Trim(doc.titles[1]),
            description |-> Pick(doc.description),
            canonical |-> Pick(doc.canonical),
            robots |-> Pick(doc.robots),
            og_title |-> Pick(doc.ogTitle),
            og_description |-> Pick(doc.ogDescription),
            h1_count |-> doc.h1]

Extract(doc) ==
    [title |-> IF doc.titles = <<>> THEN <<>> ELSE Trim(doc.titles[1]),
     description |-> Pick(doc.description),
     canonical |-> Pick(doc.canonical),
     robots |-> Pick(doc.robots),
     og_title |-> Pick(doc.ogTitle),
     og_description |-> Pick(doc.ogDescription),
     h1_count |-> doc.h1]

(***************************************************************************)
(* The SnapshotResult records built by processDomain (server.js 208-253)   *)
(* and run (part_000 195-227).  The optional fields category and error are *)
(* the empty sequence when the object has no such property.                *)
(***************************************************************************)
EmptyMessage == [kind |-> "empty", code |-> "", status |-> 0, url |-> <<>>, text |-> 0]

\* String(e.message || e): an error stands for its message; String(e) is
\* taken when the message is empty
ErrorString(e) ==
    IF e # EmptyMessage THEN e
    ELSE [kind |-> "String(e)", code |-> "", status |-> 0, url |-> <<>>, text |-> 0]

SuccessSnapshot(row, parsed) ==
    [timestamp |-> row.timestamp,
     snapshot |-> MakeIdUrl(row.timestamp, row.original),
     original |-> row.original, status |-> row.statuscode,
     length |-> row.length, digest |-> row.digest,
     title |-> parsed.title, description |-> parsed.description,
     canonical |-> parsed.canonical, robots |-> parsed.robots,
     og_title |-> parsed.og_title, og_description |-> parsed.og_description,
     h1_count |-> parsed.h1_count,
     category |-> <<>>, error |-> <<>>]

\* a catch block that keeps whatever was parsed next to the error
FailedSnapshotKeepsMeta(row, e) ==
    [SuccessSnapshot(row, Extract([NoDoc EXCEPT !.titles = <<<<"?">>>>, !.h1 = 1]))
       EXCEPT !.error = <<ErrorString(e)>>]

FailedSnapshot(row, e) ==
    [timestamp |-> row.timestamp,
     snapshot |-> MakeIdUrl(row.timestamp, row.original),
     original |-> row.original, status |-> row.statuscode,
     length |-> row.length, digest |-> row.digest,
     title |-> <<>>, description |-> <<>>, canonical |-> <<>>, robots |-> <<>>,
     og_title |-> <<>>, og_description |-> <<>>, h1_count |-> 0,
     category |-> <<>>, error |-> <<ErrorString(e)>>]

\* the TypeError / SyntaxError / body-read errors raised outside fetchRetry
CodeError(name) ==
    [kind |-> "thrown", code |-> name, status |-> 0, url |-> <<>>, text |-> 0]

(***************************************************************************)
(* analyzeWithPerplexity, src/server.js 130-194: the category returned for *)
(* the classifier's answer c, as an optional value (<<>> is null).  The    *)
(* body of a JSON answer lists choices[0].message.content, if present.     *)
(* The labels are written without their accents.                           *)
(***************************************************************************)
ValidCategories ==
    {"Clean", "Casino/Jeux", "Contenu adulte", "Pharma/Sante", "Finance suspect",
     "Contrefacon", "Piratage", "Spam generique", "E-commerce", "Blog/Info",
     "Tech", "Actualites"}

\* a classifier whose reply is stored as it came
AnalyzeResultVerbatim(c) ==
    IF c.kind = "transport" THEN <<>>
    ELSE IF ~Ok(c) THEN <<>>
    ELSE IF c.body.t # "json" THEN <<>>
    ELSE IF c.body.rows # <<>> THEN <<c.body.rows[1]>>
    ELSE <<"Spam/Suspect">>

AnalyzeResult(c) ==
    IF c.kind = "transport" THEN <<>>                 \* catch: return null
    ELSE IF ~Ok(c) THEN <<>>                          \* !response.ok: return null
    ELSE IF c.body.t # "json" THEN <<>>               \* response.json() throws
    ELSE IF c.body.rows # <<>> /\ c.body.rows[1] \in ValidCategories
           THEN <<c.body.rows[1]>>
           ELSE <<"Spam/Suspect">>

(***************************************************************************)
(* One activation of processDomain (server.js 196-261, prog "server") or   *)
(* of run (part_000 181-256, prog "cli").  pc is "index" while getCdxRows  *)
(* is pending, "snaps" while snapshot tasks are, "done" on return and      *)
(* "failed" when the activation throws.  Task k handles row k; slots is    *)
(* the array Promise.all fills, out the array run pushes to.               *)
(***************************************************************************)
Activation(prog, domain, n, unique, analyze, apiKey) ==
    [pc |-> "index", prog |-> prog, domain |-> domain,
     analyze |-> analyze, apiKey |-> apiKey,
     idx |-> FetchRetry(CdxUrl(domain, n, unique), DefaultRetries, DefaultBackoffMs),
     json |-> <<>>, rows |-> <<>>, tasks |-> <<>>, slots |-> <<>>, out |-> <<>>,
     error |-> Undefined]

Idle == [Activation("none", <<>>, 0, FALSE, FALSE, "") EXCEPT !.pc = "idle", !.idx = NoCall]

\* extractFromSnapshot(snap) up to its first await
StartTask(row) ==
    [pc |-> "fetch", snap |-> <<>>,
     call |-> FetchRetry(MakeIdUrl(row.timestamp, row.original),
                         DefaultRetries, DefaultBackoffMs)]

PendingTask == [pc |-> "pending", snap |-> <<>>, call |-> NoCall]

Fail(d, e) == [d EXCEPT !.pc = "failed", !.error = e]

\* an empty index answer treated as a failure
GotRowsEmptyFails(d, rows) ==
    IF rows = <<>> THEN Fail(d, CodeError("no snapshots"))
    ELSE [d EXCEPT !.pc = "snaps", !.rows = rows,
                   !.tasks = [k \in 1..Len(rows) |-> StartTask(rows[k])],
                   !.slots = [k \in 1..Len(rows) |-> <<>>]]

\* if (!rows.length) return ...; then rows.map(async ...) on the server,
\* the first iteration of `for (const row of rows)` in the CLI
GotRows(d, rows) ==
    IF rows = <<>> THEN [d EXCEPT !.pc = "done"]
    ELSE IF d.prog = "server"
      THEN [d EXCEPT !.pc = "snaps", !.rows = rows,
                     !.tasks = [k \in 1..Len(rows) |-> StartTask(rows[k])],
                     !.slots = [k \in 1..Len(rows) |-> <<>>]]
      ELSE [d EXCEPT !.pc = "snaps", !.rows = rows,
                     !.tasks = [k \in 1..Len(rows) |->
                                  IF k = 1 THEN StartTask(rows[k]) ELSE PendingTask]]

\* a frame whose call is over: its locals are gone
Retired(f) == [NoCall EXCEPT !.pc = f.pc]

\* getCdxRows once its fetchRetry frame has moved to f; json holds what
\* res.json() gave (<<>> while there is no such value)
AfterIndex(d, f) ==
    LET e == [d EXCEPT !.idx = Retired(f)]
    IN IF f.pc = "returned"
         THEN IF f.res.body.t = "json"
                THEN GotRows([e EXCEPT !.json = <<f.res.body.rows>>],
                             ParseRows(f.res.body.rows))
                ELSE Fail(e, CodeError("res.json"))
       ELSE IF f.pc = "thrown" THEN Fail(e, f.lastErr)
       ELSE [d EXCEPT !.idx = f]

\* results stored in the order the tasks complete
PutInCompletionOrder(slots, k, r) ==
    LET free == {j \in 1..Len(slots) : slots[j] = <<>>}
        first == CHOOSE j \in free : \A m \in free : j <= m
    IN [slots EXCEPT ![first] = <<r>>]

\* Promise.all: the value of promise k lands at index k
Put(slots, k, r) == [slots EXCEPT ![k] = <<r>>]

\* a task past its last await; snap stays what `snapshot` / `parsed` gave,
\* <<>> when extractFromSnapshot threw
Finished(task, pc) == [pc |-> pc, snap |-> task.snap, call |-> NoCall]

AllDone(tasks) == \A k \in 1..Len(tasks) : tasks[k].pc = "done"

\* task k ends with SnapshotResult r
Settle(d, k, r) ==
    IF d.prog = "server"
      THEN LET e == [d EXCEPT !.tasks[k] = Finished(@, "done"),
                              !.slots = Put(@, k, r)]
           IN IF AllDone(e.tasks) THEN [e EXCEPT !.pc = "done"] ELSE e
      \* out.push(...); await sleep(150)
      ELSE [d EXCEPT !.tasks[k] = Finished(@, "pace"),
                     !.out = Append(@, r)]

\* a failed record left out of the result
SettleFailureSkips(d, k, e) ==
    IF d.prog = "server"
      THEN LET g == [d EXCEPT !.tasks[k] = Finished(@, "done")]
           IN IF AllDone(g.tasks) THEN [g EXCEPT !.pc = "done"] ELSE g
      ELSE [d EXCEPT !.tasks[k] = Finished(@, "pace")]

\* no try/catch around the record: the failure rejects the whole activation
SettleFailureAborts(d, k, e) == Fail(d, e)

\* catch (e) { return {...row fields, error}; }   /   out.push({..., error})
SettleFailure(d, k, e) == Settle(d, k, FailedSnapshot(d.rows[k], e))

\* a guard that asks the classifier whenever analysis was requested
WantsAnalysisWhenAsked(d, parsed) == d.prog = "server" /\ d.analyze

\* if (analyzeContent && apiKey && parsed.title), and analyzeWithPerplexity's
\* own guard `if (!apiKey || !title) return null`
WantsAnalysis(d, parsed) ==
    d.prog = "server" /\ d.analyze /\ d.apiKey # "" /\ parsed.title # <<>>

\* the body of the row callback once the frame of extractFromSnapshot is f
AfterSnap(d, k, f) ==
    IF f.pc = "returned"
      THEN IF f.res.body.t = "html"
             THEN LET parsed == Extract(f.res.body.doc)
                      snapshot == SuccessSnapshot(d.rows[k], parsed)
                  IN IF WantsAnalysis(d, parsed)
                       \* the classifier request is issued: await fetch(...)
                       THEN [d EXCEPT !.tasks[k] =
                               [pc |-> "classify", snap |-> <<snapshot>>, call |-> NoCall]]
                       ELSE Settle([d EXCEPT !.tasks[k].snap = <<snapshot>>], k, snapshot)
             \* await htmlRes.text() rejects
             ELSE SettleFailure(d, k, CodeError("res.text"))
    ELSE IF f.pc = "thrown" THEN SettleFailure(d, k, f.lastErr)
    ELSE [d EXCEPT !.tasks[k].call = f]

\* a classifier failure that reaches the catch block of the row callback
AfterClassifyPropagates(d, k, c) ==
    IF c.kind = "transport" \/ ~Ok(c) \/ c.body.t # "json"
      THEN SettleFailure(d, k, CodeError("Perplexity"))
      ELSE Settle(d, k, [d.tasks[k].snap[1] EXCEPT !.category = AnalyzeResult(c)])

\* if (category) snapshot.category = category; return snapshot
AfterClassify(d, k, c) ==
    LET snapshot == d.tasks[k].snap[1]
    IN Settle(d, k, [snapshot EXCEPT !.category = AnalyzeResult(c)])

\* sleep(150) is over: next row, or the end of run
AfterPace(d, k) ==
    IF k < Len(d.rows)
      THEN [d EXCEPT !.tasks[k].pc = "done", !.tasks[k + 1] = StartTask(d.rows[k + 1])]
      ELSE [d EXCEPT !.tasks[k].pc = "done", !.pc = "done"]

RECURSIVE Flatten(_)
Flatten(slots) == IF slots = <<>> THEN <<>> ELSE Head(slots) \o Flatten(Tail(slots))

\* { domain, snapshots } of a returned processDomain; `out` of a finished run
Snapshots(d) == IF d.prog = "server" THEN Flatten(d.slots) ELSE d.out

(***************************************************************************)
(* POST /api/extract, src/server.js 539-570.  A line of the stream is      *)
(* recorded by its type, its domain, the number of snapshots of a result   *)
(* and the error of an error event.  A JSON value is its type and text.    *)
(***************************************************************************)
Str(v) == [t |-> "str", v |-> v]
Num(v) == [t |-> "num", v |-> v]

ProgressEvent(domain) ==
    [type |-> "progress", domain |-> domain, count |-> 0, message |-> Undefined]
ResultEvent(d) ==
    [type |-> "result", domain |-> Str(d.domain), count |-> Len(Snapshots(d)),
     message |-> Undefined]
ErrorEvent(domain, e) ==
    [type |-> "error", domain |-> domain, count |-> 0, message |-> e]

Streaming == [status |-> 200, ended |-> FALSE]
Ended == [status |-> 200, ended |-> TRUE]
Rejected == [status |-> 400, ended |-> TRUE]
NotStarted == [status |-> 0, ended |-> FALSE]

\* a handler that leaves the loop without calling res.end()
RECURSIVE LoopWithoutEnd(_, _, _)
LoopWithoutEnd(r, p, s) ==
    IF p > Len(r.domains.items)
      THEN [pos |-> p, stream |-> s, dom |-> Idle, resp |-> Streaming]
    ELSE LET domain == r.domains.items[p]
             s1 == Append(s, ProgressEvent(domain))
         IN IF domain.t # "str"
              THEN LoopWithoutEnd(r, p + 1, Append(s1, ErrorEvent(domain, CodeError("TypeError"))))
              ELSE [pos |-> p, stream |-> s1, resp |-> Streaming,
                    dom |-> Activation("server", Trim(domain.v), r.n, r.unique,
                                       r.analyzeContent, r.apiKey)]

\* the for-loop from domain number p on, up to the next await or res.end()
RECURSIVE Loop(_, _, _)
Loop(r, p, s) ==
    IF p > Len(r.domains.items)
      THEN [pos |-> p, stream |-> s, dom |-> Idle, resp |-> Ended]
    ELSE LET domain == r.domains.items[p]
             s1 == Append(s, ProgressEvent(domain))
         IN IF domain.t # "str"
              \* domain.trim is not a function: caught, error event, next domain
              THEN Loop(r, p + 1, Append(s1, ErrorEvent(domain, CodeError("TypeError"))))
              ELSE [pos |-> p, stream |-> s1, resp |-> Streaming,
                    dom |-> Activation("server", Trim(domain.v), r.n, r.unique,
                                       r.analyzeContent, r.apiKey)]

\* the handler from its first line to its first await
Handler(r) ==
    IF r.domains.t # "array"
      THEN [pos |-> 0, stream |-> <<>>, dom |-> Idle, resp |-> Rejected]
      ELSE Loop(r, 1, <<>>)

\* snapshot failures escalated: a domain none of whose snapshots could be
\* fetched is reported with an error event
AfterDomainEscalates(r, p, s, d) ==
    IF d.pc = "done" /\ (Snapshots(d) = <<>>
                          \/ \E i \in 1..Len(Snapshots(d)) : Snapshots(d)[i].error = <<>>)
      THEN Loop(r, p + 1, Append(s, ResultEvent(d)))
      ELSE Loop(r, p + 1, Append(s, ErrorEvent(r.domains.items[p], d.error)))

\* a catch block that writes nothing for the failed domain
AfterDomainSilentError(r, p, s, d) ==
    IF d.pc = "done" THEN Loop(r, p + 1, Append(s, ResultEvent(d)))
    ELSE Loop(r, p + 1, s)

\* a handler that announces the next domain before it reports this one
AfterDomainReportsLate(r, p, s, d) ==
    LET a == Loop(r, p + 1, s)
    IN  [a EXCEPT !.stream =
           Append(@, IF d.pc = "done" THEN ResultEvent(d)
                     ELSE ErrorEvent(r.domains.items[p], d.error))]

\* `await processDomain(...)` settles with activation d: result or error line
AfterDomain(r, p, s, d) ==
    IF d.pc = "done" THEN Loop(r, p + 1, Append(s, ResultEvent(d)))
    ELSE Loop(r, p + 1, Append(s, ErrorEvent(r.domains.items[p], d.error)))

(***************************************************************************)
(* POST /api/v1/extract, src/server.js 309-372.  bulk.tasks[k] is the      *)
(* callback domains.map runs for element k: "run" while its processDomain  *)
(* is pending (act is that activation), "pushed" after results.push,       *)
(* "caught" after errors.push, "rejected" when the callback itself threw.  *)
(* A result is recorded by its domain and its number of snapshots.  body   *)
(* is the JSON document sent, <<>> while none is; its optional members are *)
(* <<>> where the document has no such member.                             *)
(***************************************************************************)
MaxBulkDomains == 50

\* an error standing for its message text
Message(text) == [kind |-> "message", code |-> text, status |-> 0, url |-> <<>>, text |-> 0]

NoBulk == [tasks |-> <<>>, results |-> <<>>, errors |-> <<>>, status |-> 0, body |-> <<>>]

\* res.status(code).json({ success: false, error, meta: { timestamp } })
FailureBody(b, code, e) ==
    [b EXCEPT !.status = code,
              !.body = <<[success |-> FALSE, error |-> <<e>>, data |-> <<>>,
                          errors |-> <<>>, meta |-> <<>>]>>]

\* res.json({ success: true, data: results, errors, meta: {...} })
SuccessBody(b, r) ==
    [b EXCEPT !.status = 200,
              !.body = <<[success |-> TRUE, error |-> <<>>, data |-> <<b.results>>,
                          errors |-> <<b.errors>>,
                          meta |-> <<[total_domains |-> Len(r.domains.items),
                                      successful |-> Len(b.results),
                                      failed |-> Len(b.errors)]>>]>>]

\* the callback of domains.map for one element, up to its first await:
\* domain.trim() of an element that is not a string throws in the try block
\* and again in the catch block, so the promise of the callback rejects
BulkTask(r, domain) ==
    IF domain.t = "str"
      THEN [pc |-> "run",
            act |-> Activation("server", Trim(domain.v), r.n, r.unique,
                               r.analyzeContent, r.apiKey)]
      ELSE [pc |-> "rejected", act |-> Idle]

\* the callback of element k once its processDomain activation has moved to d
DomainCallback(b, r, k, d) ==
    IF d.pc = "done"
      THEN [b EXCEPT !.tasks[k] = [pc |-> "pushed", act |-> Idle],
                     !.results = Append(@, [domain |-> d.domain,
                                            count |-> Len(Snapshots(d))])]
    ELSE IF d.pc = "failed"
      THEN [b EXCEPT !.tasks[k] = [pc |-> "caught", act |-> Idle],
                     !.errors = Append(@, [domain |-> Trim(r.domains.items[k].v),
                                           error |-> d.error])]
    ELSE [b EXCEPT !.tasks[k].act = d]

\* await Promise.all(domainPromises); res.json(...), or the outer catch
AwaitAll(b, r) ==
    IF b.body # <<>> THEN b
    ELSE IF \E k \in 1..Len(b.tasks) : b.tasks[k].pc = "rejected"
      THEN FailureBody(b, 500, CodeError("TypeError"))
    ELSE IF \A k \in 1..Len(b.tasks) : b.tasks[k].pc \in {"pushed", "caught"}
      THEN SuccessBody(b, r)
    ELSE b

\* a handler without the check of `domains`
BulkHandlerUnvalidated(r) ==
    IF Len(r.domains.items) > MaxBulkDomains
      THEN FailureBody(NoBulk, 400, Message("Maximum 50 domains per request"))
    ELSE AwaitAll([NoBulk EXCEPT !.tasks = [k \in 1..Len(r.domains.items) |->
                                              BulkTask(r, r.domains.items[k])]], r)

\* a handler without the check of domains.length
BulkHandlerUncapped(r) ==
    IF r.domains.t # "array"
      THEN FailureBody(NoBulk, 400, Message("domains array is required"))
    ELSE AwaitAll([NoBulk EXCEPT !.tasks = [k \in 1..Len(r.domains.items) |->
                                              BulkTask(r, r.domains.items[k])]], r)

\* the handler from its first line to its first await
BulkHandler(r) ==
    IF r.domains.t # "array"
      THEN FailureBody(NoBulk, 400, Message("domains array is required"))
    ELSE IF Len(r.domains.items) > MaxBulkDomains
      THEN FailureBody(NoBulk, 400, Message("Maximum 50 domains per request"))
    ELSE AwaitAll([NoBulk EXCEPT !.tasks = [k \in 1..Len(r.domains.items) |->
                                              BulkTask(r, r.domains.items[k])]], r)

\* the status line of the bulk response
BulkResponse(b) == [status |-> b.status, ended |-> b.body # <<>>]

(***************************************************************************)
(* What the outside world can send.                                        *)
(***************************************************************************)
Backoffs == {100, DefaultBackoffMs}

\* answers to one request of the single fetchRetry call of SpecFetch
FetchOutcomes ==
    {Transport("ECONNRESET"), Transport("ETIMEDOUT"), Http(200, TextBody(10))}
      \cup {Http(st, TextBody(n)) : st \in {404, 429, 503}, n \in {10, 201}}
      \cup {Http(500, Unreadable)}

\* failures of a request to the index or to the archive
ErrOutcomes ==
    {Transport("ECONNRESET"), Http(404, TextBody(10)), Http(503, TextBody(10))}

Header == <<"timestamp", "original", "mimetype", "statuscode", "digest", "length">>
Row1 == <<"20240101000000", "http://a/", "text/html", "200", "D1", "1024">>
Row2 == <<"20230101000000", "http://a/old", "text/html", "200", "D2", "512">>
RowChoices == {Row1, Row2}

\* an index answer: the empty array, or the header row and up to `bound` rows
IndexBodies(bound) ==
    {<<>>} \cup
    {<<Header>> \o rows : rows \in UNION {[1..m -> RowChoices] : m \in 0..bound}}

IndexOutcomes(bound) ==
    ErrOutcomes \cup {Http(200, NotJson)}
      \cup {Http(200, JsonBody(b)) : b \in IndexBodies(bound)}

\* <title> Hi </title> with two h1 and no meta tags; a page with no title
DocHello == [NoDoc EXCEPT !.titles = << <<" ", "H", "i", " ">> >>, !.h1 = 2]
DocNoTitle == [NoDoc EXCEPT !.description = << <<"d">> >>]

SnapOutcomes ==
    ErrOutcomes \cup {Http(200, HtmlBody(DocHello)), Http(200, HtmlBody(DocNoTitle)),
                      Http(200, Unreadable)}

ClassifierOutcomes ==
    {Transport("ECONNRESET"), Http(500, TextBody(0)), Http(200, NotJson),
     Http(200, JsonBody(<<>>)), Http(200, JsonBody(<<"banana">>)),
     Http(200, JsonBody(<<"Casino/Jeux">>))}

\* apiKey "" stands for every falsy credential (null, undefined, "")
Options == {<<FALSE, "">>, <<TRUE, "">>, <<FALSE, "key">>, <<TRUE, "key">>}

\* <<unique, <<analyzeContent, apiKey>>>> of a direct processDomain call
ServerCalls == {<<FALSE, opt>> : opt \in Options} \cup {<<TRUE, <<FALSE, "">>>>}

Request(domains, n, unique, opt) ==
    [domains |-> domains, n |-> n, unique |-> unique,
     analyzeContent |-> opt[1], apiKey |-> opt[2]]

NoRequest == Request([t |-> "none", items |-> <<>>], 0, FALSE, <<FALSE, "">>)

DomainValues == {Str(<<" ", "a">>), Num(<<"7">>)}

Batches ==
    {[t |-> "array", items |-> b] :
        b \in UNION {[1..m -> DomainValues] : m \in 0..MaxDomains}}
      \cup {[t |-> "missing", items |-> <<>>]}

RowBound == IF entry = "stream" THEN StreamRows ELSE MaxRows

\* a value of `domains` that is not an array, and an array of 51 domains
NotArray == [t |-> "str", items |-> <<>>]
Over50 == [t |-> "array", items |-> [k \in 1..(MaxBulkDomains + 1) |-> Str(<<"a">>)]]

\* the index answers limit=-n with at most n rows; a batch of more than 50
\* domains is run against an index that holds no capture of any of them
IndexAnswers ==
    IF Len(req.domains.items) > MaxBulkDomains
      THEN {Http(200, JsonBody(<<>>))}
      ELSE IndexOutcomes(Min(req.n, RowBound))

\* what the upstream answers to the concurrent tasks of a bulk request: a
\* failure, or the header row and the m latest captures, m <= n
BulkIndexOutcomes(n) ==
    {Transport("ECONNRESET")}
      \cup {Http(200, JsonBody(<<Header>> \o SubSeq(<<Row1, Row2>>, 1, m))) :
               m \in 0..Min(n, Min(2, RowBound))}

BulkSnapOutcomes == {Transport("ECONNRESET"), Http(200, HtmlBody(DocHello))}

\* the page before the first extraction: nothing read, nothing shown
NoPage == [pc |-> "idle", text |-> <<>>, rest |-> <<>>, processing |-> FALSE,
           results |-> <<>>, errors |-> <<>>, currentDomain |-> "",
           completedDomains |-> 0, columns |-> <<>>]

(***************************************************************************)
(* SpecFetch: one fetchRetry call against an arbitrary upstream.           *)
(***************************************************************************)
InitFetch ==
    /\ call \in {FetchRetry(<<"u">>, r, b) : r \in 0..MaxRetries, b \in Backoffs}
    /\ hist = <<>>
    /\ entry = "fetchRetry"
    /\ req = NoRequest
    /\ pos = 0
    /\ dom = Idle
    /\ stream = <<>>
    /\ resp = NotStarted
    /\ bulk = NoBulk
    /\ ui = NoPage

\* the pending request of the call settles with answer o
FetchSettles ==
    /\ call.pc = "fetch"
    /\ \E o \in FetchOutcomes :
         /\ call' = OnResponse(call, o)
         /\ hist' = Append(hist, o)
    /\ UNCHANGED <<bulk, ui, entry, req, pos, dom, stream, resp>>

\* the pending backoff timer of the call fires
FetchTimer ==
    /\ call.pc = "sleep"
    /\ call' = OnTimer(call)
    /\ UNCHANGED <<bulk, ui, hist, entry, req, pos, dom, stream, resp>>

NextFetch == FetchSettles \/ FetchTimer

SpecFetch == InitFetch /\ [][NextFetch]_vars

(***************************************************************************)
(* The activations: processDomain called once, run called once, or the     *)
(* streaming endpoint driving processDomain over a batch.                  *)
(***************************************************************************)
InitServer ==
    /\ call = NoCall
    /\ hist = <<>>
    /\ entry = "none"
    /\ req = NoRequest
    /\ pos = 0
    /\ dom = Idle
    /\ stream = <<>>
    /\ resp = NotStarted
    /\ bulk = NoBulk
    /\ ui = NoPage

\* the activation moves to d
Commit(d) ==
    /\ dom' = d
    /\ UNCHANGED <<pos, stream, resp>>

\* processDomain(domain, n, unique, analyzeContent, apiKey) is called
CallProcessDomain ==
    /\ entry = "none"
    /\ \E c \in ServerCalls :
         /\ req' = Request([t |-> "array", items |-> <<Str(<<"a">>)>>], 5, c[1], c[2])
         /\ dom' = Activation("server", <<"a">>, 5, c[1], c[2][1], c[2][2])
    /\ entry' = "processDomain"
    /\ UNCHANGED <<bulk, ui, call, hist, pos, stream, resp>>

\* run(domain, n, unique) of the command-line tool is called
CliRun ==
    /\ entry = "none"
    /\ \E unique \in BOOLEAN :
         /\ req' = Request([t |-> "array", items |-> <<Str(<<"a">>)>>], 5, unique,
                           <<FALSE, "">>)
         /\ dom' = Activation("cli", <<"a">>, 5, unique, FALSE, "")
    /\ entry' = "run"
    /\ UNCHANGED <<bulk, ui, call, hist, pos, stream, resp>>

\* a POST /api/extract request arrives
PostApiExtract ==
    /\ entry = "none"
    /\ \E b \in Batches, opt \in {<<FALSE, "">>, <<TRUE, "key">>} :
         LET r == Request(b, 5, FALSE, opt)
             a == Handler(r)
         IN /\ req' = r
            /\ pos' = a.pos
            /\ stream' = a.stream
            /\ dom' = a.dom
            /\ resp' = a.resp
    /\ entry' = "stream"
    /\ UNCHANGED <<bulk, ui, call, hist>>

\* the index request of getCdxRows settles
IndexSettles ==
    /\ dom.pc = "index"
    /\ dom.idx.pc = "fetch"
    /\ \E o \in IndexAnswers : Commit(AfterIndex(dom, OnResponse(dom.idx, o)))
    /\ UNCHANGED <<bulk, ui, call, hist, entry, req>>

\* the backoff timer of the index request fires
IndexTimer ==
    /\ dom.pc = "index"
    /\ dom.idx.pc = "sleep"
    /\ Commit(AfterIndex(dom, OnTimer(dom.idx)))
    /\ UNCHANGED <<bulk, ui, call, hist, entry, req>>

\* the archive request of snapshot task k settles
SnapSettles ==
    /\ dom.pc = "snaps"
    /\ \E k \in 1..Len(dom.tasks) :
         /\ dom.tasks[k].pc = "fetch"
         /\ dom.tasks[k].call.pc = "fetch"
         /\ \E o \in SnapOutcomes :
              Commit(AfterSnap(dom, k, OnResponse(dom.tasks[k].call, o)))
    /\ UNCHANGED <<bulk, ui, call, hist, entry, req>>

\* the backoff timer of snapshot task k fires
SnapTimer ==
    /\ dom.pc = "snaps"
    /\ \E k \in 1..Len(dom.tasks) :
         /\ dom.tasks[k].pc = "fetch"
         /\ dom.tasks[k].call.pc = "sleep"
         /\ Commit(AfterSnap(dom, k, OnTimer(dom.tasks[k].call)))
    /\ UNCHANGED <<bulk, ui, call, hist, entry, req>>

\* the classifier request of snapshot task k settles
ClassifierSettles ==
    /\ dom.pc = "snaps"
    /\ \E k \in 1..Len(dom.tasks) :
         /\ dom.tasks[k].pc = "classify"
         /\ \E c \in ClassifierOutcomes : Commit(AfterClassify(dom, k, c))
    /\ UNCHANGED <<bulk, ui, call, hist, entry, req>>

\* the 150 ms pause after row k of run is over
PaceTimer ==
    /\ dom.pc = "snaps"
    /\ \E k \in 1..Len(dom.tasks) :
         /\ dom.tasks[k].pc = "pace"
         /\ Commit(AfterPace(dom, k))
    /\ UNCHANGED <<bulk, ui, call, hist, entry, req>>

\* `await processDomain(...)` of the streaming handler resumes: the terminal
\* line is written and the loop runs to its next await or to res.end()
HandlerResumes ==
    /\ entry = "stream"
    /\ dom.pc \in {"done", "failed"}
    /\ LET a == AfterDomain(req, pos, stream, dom)
       IN /\ pos' = a.pos
          /\ stream' = a.stream
          /\ dom' = a.dom
          /\ resp' = a.resp
    /\ UNCHANGED <<bulk, ui, call, hist, entry, req>>

NextDomain ==
    \/ CallProcessDomain
    \/ CliRun
    \/ IndexSettles
    \/ IndexTimer
    \/ SnapSettles
    \/ SnapTimer
    \/ ClassifierSettles
    \/ PaceTimer

SpecDomain == InitServer /\ [][NextDomain]_vars

NextStream ==
    \/ PostApiExtract
    \/ IndexSettles
    \/ IndexTimer
    \/ SnapSettles
    \/ SnapTimer
    \/ ClassifierSettles
    \/ HandlerResumes

SpecStream == InitServer /\ [][NextStream]_vars

(***************************************************************************)
(* The two batch endpoints side by side: POST /api/extract and             *)
(* POST /api/v1/extract, on requests that ask for one snapshot per domain  *)
(* and whose `domains` is of any shape.                                    *)
(***************************************************************************)
\* a POST /api/extract request with n = 1 arrives
PostApiExtractOne ==
    /\ entry = "none"
    /\ \E b \in Batches \cup {NotArray, Over50}, opt \in {<<FALSE, "">>, <<TRUE, "key">>} :
         LET r == Request(b, 1, FALSE, opt)
             a == Handler(r)
         IN /\ req' = r
            /\ pos' = a.pos
            /\ stream' = a.stream
            /\ dom' = a.dom
            /\ resp' = a.resp
    /\ entry' = "stream"
    /\ UNCHANGED <<bulk, ui, call, hist>>

\* a POST /api/v1/extract request with snapshots = 1 arrives
PostApiV1Extract ==
    /\ entry = "none"
    /\ \E b \in Batches \cup {NotArray, Over50}, opt \in {<<FALSE, "">>, <<TRUE, "key">>} :
         LET r == Request(b, 1, FALSE, opt)
         IN /\ req' = r
            /\ bulk' = BulkHandler(r)
            /\ resp' = BulkResponse(BulkHandler(r))
    /\ entry' = "bulk"
    /\ UNCHANGED <<ui, call, hist, pos, dom, stream>>

\* the processDomain activation of bulk task k moves to d: its callback
\* goes on, and so does the handler when Promise.all settles
BulkCommit(k, d) ==
    \E b \in {AwaitAll(DomainCallback(bulk, req, k, d), req)} :
        /\ bulk' = b
        /\ resp' = BulkResponse(b)
        /\ UNCHANGED <<ui, call, hist, entry, req, pos, dom, stream>>

\* the index request of bulk task k settles
BulkIndexSettles ==
    \E k \in 1..Len(bulk.tasks) :
        /\ bulk.tasks[k].pc = "run"
        /\ \E d \in {bulk.tasks[k].act} :
             /\ d.pc = "index"
             /\ d.idx.pc = "fetch"
             /\ \E o \in BulkIndexOutcomes(req.n) :
                  \E f \in {OnResponse(d.idx, o)} :
                      \E e \in {AfterIndex(d, f)} : BulkCommit(k, e)

\* the backoff timer of the index request of bulk task k fires
BulkIndexTimer ==
    \E k \in 1..Len(bulk.tasks) :
        /\ bulk.tasks[k].pc = "run"
        /\ \E d \in {bulk.tasks[k].act} :
             /\ d.pc = "index"
             /\ d.idx.pc = "sleep"
             /\ \E f \in {OnTimer(d.idx)} :
                  \E e \in {AfterIndex(d, f)} : BulkCommit(k, e)

\* the archive request of snapshot task j of bulk task k settles
BulkSnapSettles ==
    \E k \in 1..Len(bulk.tasks) :
        /\ bulk.tasks[k].pc = "run"
        /\ \E d \in {bulk.tasks[k].act} :
             /\ d.pc = "snaps"
             /\ \E j \in 1..Len(d.tasks) :
                  /\ d.tasks[j].pc = "fetch"
                  /\ d.tasks[j].call.pc = "fetch"
                  /\ \E o \in BulkSnapOutcomes :
                       \E f \in {OnResponse(d.tasks[j].call, o)} :
                           \E e \in {AfterSnap(d, j, f)} : BulkCommit(k, e)

\* the backoff timer of snapshot task j of bulk task k fires
BulkSnapTimer ==
    \E k \in 1..Len(bulk.tasks) :
        /\ bulk.tasks[k].pc = "run"
        /\ \E d \in {bulk.tasks[k].act} :
             /\ d.pc = "snaps"
             /\ \E j \in 1..Len(d.tasks) :
                  /\ d.tasks[j].pc = "fetch"
                  /\ d.tasks[j].call.pc = "sleep"
                  /\ \E f \in {OnTimer(d.tasks[j].call)} :
                       \E e \in {AfterSnap(d, j, f)} : BulkCommit(k, e)

\* the classifier request of snapshot task j of bulk task k settles
BulkClassifierSettles ==
    \E k \in 1..Len(bulk.tasks) :
        /\ bulk.tasks[k].pc = "run"
        /\ \E d \in {bulk.tasks[k].act} :
             /\ d.pc = "snaps"
             /\ \E j \in 1..Len(d.tasks) :
                  /\ d.tasks[j].pc = "classify"
                  /\ \E c \in ClassifierOutcomes :
                       \E e \in {AfterClassify(d, j, c)} : BulkCommit(k, e)

NextBatch ==
    \/ PostApiExtractOne
    \/ PostApiV1Extract
    \/ IndexSettles
    \/ IndexTimer
    \/ SnapSettles
    \/ SnapTimer
    \/ ClassifierSettles
    \/ HandlerResumes
    \/ BulkIndexSettles
    \/ BulkIndexTimer
    \/ BulkSnapSettles
    \/ BulkSnapTimer
    \/ BulkClassifierSettles

SpecBatch == InitServer /\ [][NextBatch]_vars

\* a step of the streaming endpoint, and one of the bulk endpoint, after the
\* request has arrived
StreamStep ==
    \/ IndexSettles \/ IndexTimer \/ SnapSettles \/ SnapTimer
    \/ ClassifierSettles \/ HandlerResumes

BulkStep ==
    \/ BulkIndexSettles \/ BulkIndexTimer \/ BulkSnapSettles \/ BulkSnapTimer
    \/ BulkClassifierSettles

\* while a request, a timer or a resumption is pending, one of them happens:
\* every issued network call is eventually answered
SpecBatchFair == SpecBatch /\ WF_vars(StreamStep) /\ WF_vars(BulkStep)

(***************************************************************************)
(* Claims about fetchRetry, checked under SpecFetch.                       *)
(***************************************************************************)
\* a transport failure, HTTP 429 or a 5xx status
Retryable(o) ==
    \/ o.kind = "transport"
    \/ o.kind = "http" /\ (o.status = 429 \/ o.status >= 500)

\* a 4xx status other than 429
NonRetryable4xx(o) ==
    o.kind = "http" /\ o.status >= 400 /\ o.status <= 499 /\ o.status # 429

\* C6: when the latest answer to a fetchRetry call is a non-retryable 4xx
\* status, the call has failed at once: it is in the thrown state, it issued
\* no request after that answer and set no backoff timer for it (so a 4xx
\* answer to the first request leaves exactly one request and no wait).
C6_NonRetryable4xxFailsAtOnce ==
    (hist # <<>> /\ NonRetryable4xx(Last(hist))) =>
        /\ call.pc = "thrown"
        /\ call.nreq = Len(hist)
        /\ Len(call.waits) = Len(hist) - 1

\* C7: if the first k answers (k <= retries) are transport failures, 429 or
\* 5xx and answer k+1 is a 2xx response, fetchRetry has returned that
\* response after exactly k backoff waits, the i-th (from 0) of length
\* backoffMs * 2^i, and k+1 requests were issued in all.
C7_SucceedsAfterRetryableFailures ==
    \A k \in 0..call.retries :
        ( /\ Len(hist) = k + 1
          /\ \A j \in 1..k : Retryable(hist[j])
          /\ Ok(hist[k + 1]) ) =>
            /\ call.pc = "returned"
            /\ call.res = hist[k + 1]
            /\ call.nreq = k + 1
            /\ call.waits = [i \in 1..k |-> call.backoffMs * 2 ^ (i - 1)]

\* 503, 503, 200: the 200 is returned after waits of B and 2B
C7_Witness ==
    /\ Len(hist) = 3
    /\ hist[1].status = 503 /\ hist[2].status = 503 /\ hist[3].status = 200
    /\ call.pc = "returned"
    /\ call.waits = <<call.backoffMs, 2 * call.backoffMs>>

\* C8: fetchRetry never issues more than retries + 1 requests (4 with the
\* default bound of 3), and it ends either returned with a 2xx response or
\* thrown; once ended no request or timer is pending.
C8_AtMostRetriesPlusOneRequests ==
    /\ call.nreq <= call.retries + 1
    /\ Len(hist) <= call.nreq
    /\ call.retries = DefaultRetries => call.nreq <= 4
    /\ call.pc \in {"fetch", "sleep", "returned", "thrown"}
    /\ call.pc = "returned" => Ok(call.res)
    /\ call.nreq = call.retries + 1 /\ Len(hist) = call.nreq =>
         call.pc \in {"returned", "thrown"}

\* every one of the retries + 1 requests failed, with the default bound
C8_Witness ==
    /\ call.retries = DefaultRetries
    /\ call.nreq = DefaultRetries + 1
    /\ Len(hist) = DefaultRetries + 1
    /\ call.pc = "thrown"

\* C9: the error fetchRetry throws is the cause of the final attempt: the
\* transport error of the last answer, or an HTTP error with the status of
\* the last answer, the URL, and the first 200 characters at most of its
\* body; it is never undefined.
C9_ThrownErrorIsOfFinalAttempt ==
    call.pc = "thrown" =>
        LET last == Last(hist)
            e == call.lastErr
        IN /\ e # Undefined
           /\ hist # <<>>
           /\ last.kind = "transport" =>
                e.kind = "transport" /\ e.code = last.code
           /\ last.kind = "http" =>
                /\ e.kind = "http"
                /\ e.status = last.status
                /\ e.url = call.url
                /\ e.text <= BodyLimit
                /\ e.text = (IF last.body.t = "text"
                               THEN Min(last.body.len, BodyLimit) ELSE 0)

\* thrown after an earlier attempt failed differently from the last one,
\* whose body is longer than 200 characters
C9_Witness ==
    /\ call.pc = "thrown"
    /\ Len(hist) >= 2
    /\ hist[1].kind = "transport"
    /\ Last(hist).kind = "http"
    /\ Last(hist).body.len > BodyLimit
    /\ call.lastErr.text = BodyLimit

(***************************************************************************)
(* Claims about processDomain and run, checked under SpecDomain.           *)
(***************************************************************************)
\* the data rows of an index answer: all rows but the header
DataRows(json) == IF json = <<>> THEN 0 ELSE Len(json) - 1

\* the SnapshotResult of row k so far, as an optional value
ResultAt(d, k) ==
    IF d.prog = "server"
      THEN IF k <= Len(d.slots) THEN d.slots[k] ELSE <<>>
      ELSE IF k <= Len(d.out) THEN <<d.out[k]>> ELSE <<>>

MetaEmpty(r) ==
    /\ r.title = <<>> /\ r.description = <<>> /\ r.canonical = <<>>
    /\ r.robots = <<>> /\ r.og_title = <<>> /\ r.og_description = <<>>
    /\ r.h1_count = 0

\* C1: once the index query has answered with k data rows, processDomain
\* and run never fail, never hold more than k SnapshotResults, and end with
\* exactly k of them, whichever snapshot fetches succeed or fail.
C1_OneResultPerIndexRow ==
    dom.json # <<>> =>
        /\ dom.pc \in {"snaps", "done"}
        /\ Len(Snapshots(dom)) <= DataRows(dom.json[1])
        /\ dom.pc = "done" => Len(Snapshots(dom)) = DataRows(dom.json[1])

\* run ended with two rows whose fetches both failed
C1_Witness ==
    /\ dom.prog = "cli"
    /\ dom.pc = "done"
    /\ DataRows(dom.json[1]) = 2
    /\ Len(dom.out) = 2
    /\ dom.out[1].error # <<>>
    /\ dom.out[2].error # <<>>

\* C2: a record whose fetch or extraction failed is reported with the
\* identifying fields of its row, empty metadata, h1_count 0 and a non-empty
\* error, and it aborts nothing: the activation has not failed, and when it
\* ends every row, failed or not, has its SnapshotResult.
C2_FailureIsolatedToItsRecord ==
    \A k \in 1..Len(dom.rows) :
        LET r == ResultAt(dom, k)
            row == dom.rows[k]
        IN /\ dom.pc # "failed"
           /\ dom.pc = "done" => r # <<>>
           /\ (r # <<>> /\ r[1].error # <<>>) =>
                /\ r[1].timestamp = row.timestamp
                /\ r[1].snapshot = MakeIdUrl(row.timestamp, row.original)
                /\ r[1].original = row.original
                /\ r[1].status = row.statuscode
                /\ r[1].length = row.length
                /\ r[1].digest = row.digest
                /\ MetaEmpty(r[1])
                /\ r[1].error[1] \notin {EmptyMessage, Undefined}

\* the first record failed and its sibling was fetched and extracted
C2_Witness ==
    /\ dom.pc = "done"
    /\ Len(dom.rows) = 2
    /\ ResultAt(dom, 1) # <<>> /\ ResultAt(dom, 1)[1].error # <<>>
    /\ ResultAt(dom, 2) # <<>> /\ ResultAt(dom, 2)[1].error = <<>>
    /\ ResultAt(dom, 2)[1].h1_count = 2

\* C3: in processDomain a SnapshotResult with an error has empty metadata
\* and h1_count 0, and a SnapshotResult built from a successful extraction
\* (tasks[k].snap is what was extracted) has no error and carries what was
\* extracted, also when the classifier call gave nothing.
C3_ErrorExcludesMetadata ==
    dom.prog = "server" =>
        \A k \in 1..Len(dom.slots) :
            dom.slots[k] # <<>> =>
                LET r == dom.slots[k][1]
                    snap == dom.tasks[k].snap
                IN /\ r.error # <<>> => MetaEmpty(r) /\ snap = <<>>
                   /\ snap # <<>> =>
                        /\ r.error = <<>>
                        /\ r.title = snap[1].title
                        /\ r.description = snap[1].description
                        /\ r.h1_count = snap[1].h1_count

\* one record failed; the other was extracted, its classifier call failed
C3_Witness ==
    /\ dom.prog = "server" /\ dom.analyze /\ dom.apiKey # ""
    /\ Len(dom.slots) = 2
    /\ dom.slots[1] # <<>> /\ dom.slots[1][1].error # <<>>
    /\ dom.slots[2] # <<>> /\ dom.slots[2][1].error = <<>>
    /\ dom.slots[2][1].title # <<>>
    /\ dom.slots[2][1].category = <<>>

\* C4: snapshots[i] of processDomain carries the timestamp, original URL and
\* digest of data row i of the index answer, in whatever order the snapshot
\* tasks complete.
C4_SnapshotsFollowIndexOrder ==
    (dom.prog = "server" /\ dom.json # <<>>) =>
        /\ \A k \in 1..Len(dom.slots) :
             dom.slots[k] # <<>> =>
                 /\ dom.slots[k][1].timestamp = dom.json[1][k + 1][1]
                 /\ dom.slots[k][1].original = dom.json[1][k + 1][2]
                 /\ dom.slots[k][1].digest = dom.json[1][k + 1][5]
        /\ dom.pc = "done" =>
             \A i \in 1..Len(Snapshots(dom)) :
                 Snapshots(dom)[i].timestamp = dom.json[1][i + 1][1]

\* the task of row 2 completed while that of a different row 1 is pending
C4_Witness ==
    /\ dom.prog = "server"
    /\ Len(dom.slots) = 2
    /\ dom.json[1][2] # dom.json[1][3]
    /\ dom.slots[1] = <<>>
    /\ dom.slots[2] # <<>>

(***************************************************************************)
(* Claims about POST /api/extract, checked under SpecStream.               *)
(***************************************************************************)
\* the index query of the current domain answered with no data row
ZeroRows == dom.json # <<>> /\ DataRows(dom.json[1]) = 0

ZeroRowsReturn ==
    ZeroRows =>
        /\ dom.pc = "done"
        /\ dom.error = Undefined
        /\ dom.tasks = <<>>
        /\ Snapshots(dom) = <<>>

ZeroRowsEvent ==
    ZeroRows =>
        /\ Len(stream') > Len(stream)
        /\ SubSeq(stream', 1, Len(stream)) = stream
        /\ stream'[Len(stream) + 1] =
             [type |-> "result", domain |-> Str(dom.domain), count |-> 0,
              message |-> Undefined]

\* C5: when the index query answers with zero data rows, processDomain
\* returns {domain, snapshots: []}: it raises no error and starts no snapshot
\* task, and the next line the streaming endpoint writes is the result event
\* of that domain, with no snapshots.
C5_ZeroRowsIsAnEmptyResult == [](ZeroRowsReturn) /\ [][ZeroRowsEvent]_vars

\* an empty result has been streamed for the only domain of a batch
C5_Witness ==
    /\ resp.ended
    /\ Len(req.domains.items) = 1
    /\ Len(stream) = 2
    /\ stream[2].type = "result"
    /\ stream[2].count = 0

ProgressCount(v, m) ==
    Cardinality({i \in 1..m : stream[i].type = "progress" /\ stream[i].domain = v})

TerminalCount(v, m) ==
    Cardinality({i \in 1..m :
        \/ stream[i].type = "error" /\ stream[i].domain = v
        \/ stream[i].type = "result" /\ v.t = "str"
             /\ stream[i].domain = Str(Trim(v.v))})

Occurrences(v) ==
    Cardinality({j \in 1..Len(req.domains.items) : req.domains.items[j] = v})

\* C10: for a batch the endpoint accepts, every prefix of the stream holds,
\* per domain value, no more terminal events (result or error) than progress
\* events and no more progress events than the batch lists that domain; the
\* ended stream holds exactly one progress and one terminal event per
\* requested domain and nothing else.
C10_OneProgressOneTerminalPerDomain ==
    (entry = "stream" /\ req.domains.t = "array") =>
        /\ \A v \in DomainValues :
             /\ \A m \in 0..Len(stream) :
                  /\ TerminalCount(v, m) <= ProgressCount(v, m)
                  /\ ProgressCount(v, m) <= Occurrences(v)
             /\ resp.ended =>
                  /\ ProgressCount(v, Len(stream)) = Occurrences(v)
                  /\ TerminalCount(v, Len(stream)) = Occurrences(v)
        /\ \A i \in 1..Len(stream) : stream[i].type \in {"progress", "result", "error"}
        /\ resp.ended => Len(stream) = 2 * Len(req.domains.items)

\* a batch of two: the index query of one domain failed, the other succeeded
C10_Witness ==
    /\ resp.ended
    /\ Len(req.domains.items) = 2
    /\ \E i, j \in 1..Len(stream) :
         /\ stream[i].type = "error"
         /\ stream[i].message.kind = "transport"
         /\ stream[j].type = "result"

\* getCdxRows of activation d threw: fetchRetry gave up, or the body of the
\* index answer could not be read as JSON
IndexQueryFailed(d) ==
    /\ d.pc = "failed"
    /\ d.json = <<>>
    /\ \/ d.idx.pc = "thrown" /\ d.error.kind \in {"transport", "http"}
       \/ d.idx.pc = "returned" /\ d.error = CodeError("res.json")

\* the index query of activation d gave its rows and the activation returned
IndexQuerySucceeded(d) == d.json # <<>>

\* the lines a step appends to the stream
NewLines == (Len(stream) + 1)..Len(stream')

\* a step that finds the activation returned writes its result event next
ResultFollowsSuccess ==
    (entry = "stream" /\ dom.pc = "done") =>
        /\ IndexQuerySucceeded(dom)
        /\ Len(stream') > Len(stream)
        /\ stream'[Len(stream) + 1].type = "result"
        /\ stream'[Len(stream) + 1].domain = Str(dom.domain)
        /\ stream'[Len(stream) + 1].count = DataRows(dom.json[1])

\* an error line is the first line of a step that found the index query of
\* the current domain failed
ErrorOnlyOnIndexFailure ==
    \A i \in NewLines :
        stream'[i].type = "error" =>
            /\ i = Len(stream) + 1
            /\ IndexQueryFailed(dom)
            /\ stream'[i].domain = req.domains.items[pos]
            /\ stream'[i].message = dom.error

\* ... or it is the line of an element that is not a string, written right
\* after the progress line of that element: no index query lies between
ErrorOnIndexFailureOrBadElement ==
    \A i \in NewLines :
        stream'[i].type = "error" =>
            \/ /\ i = Len(stream) + 1
               /\ IndexQueryFailed(dom)
               /\ stream'[i].domain = req.domains.items[pos]
               /\ stream'[i].message = dom.error
            \/ /\ stream'[i].domain.t # "str"
               /\ stream'[i].message = CodeError("TypeError")
               /\ i - 1 \in NewLines
               /\ stream'[i - 1] = ProgressEvent(stream'[i].domain)

\* C11 as stated: on the streaming endpoint an error event is written for a
\* domain only when the index query of that domain failed, and a domain
\* whose index query succeeded always gets a result event.
C11_ErrorEventOnlyOnIndexFailure ==
    /\ [](IndexQuerySucceeded(dom) => dom.pc # "failed")
    /\ [][ErrorOnlyOnIndexFailure /\ ResultFollowsSuccess]_vars

\* C11, amended: on the streaming endpoint an error event is written for a
\* domain either when the index query of that domain failed or when the
\* element is not a string (no index query is issued for it); a domain whose
\* index query succeeded never fails and always gets a result event, with
\* one snapshot per index row, even when every snapshot fetch or classifier
\* call failed.
C11_ErrorEventOnIndexFailureOrBadElement ==
    /\ [](IndexQuerySucceeded(dom) => dom.pc # "failed")
    /\ [][ErrorOnIndexFailureOrBadElement /\ ResultFollowsSuccess]_vars

\* the index query of a domain succeeded and every one of its snapshots
\* failed: the handler is about to write its result event, after the error
\* event of an element that is a number
C11_Witness ==
    /\ entry = "stream"
    /\ dom.pc = "done"
    /\ dom.slots # <<>>
    /\ \A k \in 1..Len(dom.slots) : dom.slots[k][1].error # <<>>
    /\ \E j \in 1..Len(stream) :
         /\ stream[j].type = "error"
         /\ stream[j].domain.t = "num"
         /\ stream[j].message = CodeError("TypeError")

(***************************************************************************)
(* Claims about the two batch endpoints, checked under SpecBatch.          *)
(***************************************************************************)
\* how often the entries of a list of the bulk response name element v
Listed(list, v) ==
    Cardinality({i \in 1..Len(list) : v.t = "str" /\ list[i].domain = Trim(v.v)})

\* C12: the response of POST /api/v1/extract to a request whose domains is
\* an array of at most 50 elements of any JSON type is sent only after
\* every domain task has settled, with status 200, and lists every requested
\* domain exactly once, in data or in errors; meta.successful + meta.failed
\* = meta.total_domains = the number of requested domains.
C12_BulkListsEveryDomainOnce ==
    ( /\ entry = "bulk"
      /\ req.domains.t = "array"
      /\ Len(req.domains.items) <= MaxBulkDomains
      /\ bulk.body # <<>> ) =>
        /\ resp.status = 200
        /\ bulk.body[1].success
        /\ \A k \in 1..Len(bulk.tasks) : bulk.tasks[k].pc \in {"pushed", "caught"}
        /\ LET data == bulk.body[1].data[1]
               errors == bulk.body[1].errors[1]
               meta == bulk.body[1].meta[1]
           IN /\ meta.total_domains = Len(req.domains.items)
              /\ meta.successful = Len(data)
              /\ meta.failed = Len(errors)
              /\ meta.successful + meta.failed = meta.total_domains
              /\ \A v \in DomainValues :
                   Listed(data, v) + Listed(errors, v) = Occurrences(v)

\* the request passed the validation of its endpoint
StreamAccepted == entry = "stream" /\ req.domains.t = "array"

BulkAccepted ==
    entry = "bulk" /\ req.domains.t = "array" /\ Len(req.domains.items) <= MaxBulkDomains

\* line is the result or error event of element v
TerminalOf(line, v) ==
    \/ line.type = "error" /\ line.domain = v
    \/ line.type = "result" /\ v.t = "str" /\ line.domain = Str(Trim(v.v))

\* res.end() was called, and the last line written before it is the
\* terminal event of the last domain
StreamCompleted ==
    /\ resp.ended
    /\ resp.status = 200
    /\ req.domains.items # <<>> =>
         /\ stream # <<>>
         /\ TerminalOf(Last(stream), Last(req.domains.items))

\* the JSON response was sent
BulkCompleted == resp.ended /\ bulk.body # <<>>

\* C13: when every pending network call is eventually answered (and every
\* pending timer fires), a request that passed validation completes: the
\* streaming endpoint ends its response after the terminal event of the last
\* domain, and the bulk endpoint sends its JSON response.
C13_BatchEventuallyCompletes ==
    (StreamAccepted \/ BulkAccepted) ~>
        \/ entry = "stream" /\ StreamCompleted
        \/ entry = "bulk" /\ BulkCompleted

\* the stream of a batch of two has ended; the index query of the last
\* domain was given up after its retries
C13_Witness ==
    /\ StreamAccepted
    /\ StreamCompleted
    /\ Len(req.domains.items) = 2
    /\ Len(stream) = 4
    /\ Last(stream).type = "error"
    /\ Last(stream).message.kind = "http"
    /\ Last(stream).message.status = 503

\* a request has arrived at one of the two batch endpoints
BatchRequest == entry \in {"stream", "bulk"}

\* no request to the index, the archive or the classifier was ever issued,
\* and no line was written to the stream
NothingIssued == dom = Idle /\ bulk.tasks = <<>> /\ stream = <<>>

Refused == resp.ended /\ resp.status = 400 /\ NothingIssued

C15_Over50RejectedOnBothEndpoints ==
    (BatchRequest /\ Len(req.domains.items) > MaxBulkDomains) => Refused

\* C15, amended: on the bulk endpoint POST /api/v1/extract a request listing
\* more than 50 domains is rejected with status 400 before any network call
\* is issued, and no bulk batch runs more than 50 domain tasks; the
\* streaming endpoint POST /api/extract has no cap: it accepts an array of
\* any length and writes a progress and a terminal event for each element.
C15_Over50RejectedOnBulkEndpoint ==
    /\ (entry = "bulk" /\ Len(req.domains.items) > MaxBulkDomains) =>
         /\ Refused
         /\ bulk.body[1].error = <<Message("Maximum 50 domains per request")>>
    /\ Len(bulk.tasks) <= MaxBulkDomains
    /\ StreamAccepted =>
         /\ resp.status = 200
         /\ resp.ended => Len(stream) = 2 * Len(req.domains.items)

\* the bulk endpoint has refused a list of 51 domains
C15_Witness ==
    /\ entry = "bulk"
    /\ Len(req.domains.items) = MaxBulkDomains + 1
    /\ Refused
    /\ bulk.body[1].error = <<Message("Maximum 50 domains per request")>>

(***************************************************************************)
(* The page (waybackApp.startExtraction): the reader of the event stream.  *)
(* The response body is a sequence of characters; "nl" is the newline, a   *)
(* serialized event is the four characters { type payload }.               *)
(***************************************************************************)
MaxLines == 2

Tags == {"p", "r", "e"}

Payloads == {"a", "b"}

\* JSON.stringify({type, ...}) as the server writes it, without the newline
EventLine(tag, v) == <<"{", tag, v, "}">>

\* what can stand between two newlines of a response body: the events of
\* the server, a truncated event, a blank line
Lines ==
    {EventLine("p", "a"), EventLine("r", "a"), EventLine("r", "b"),
     EventLine("e", "a"), <<"{", "r">>, <<" ">>}

RECURSIVE Body(_)
\* the response body: every line followed by its newline
Body(ls) == IF ls = <<>> THEN <<>> ELSE Head(ls) \o <<"nl">> \o Body(Tail(ls))

RECURSIVE LinesUpTo(_)
LinesUpTo(n) ==
    IF n = 0 THEN {<<>>}
    ELSE LinesUpTo(n - 1) \cup
         {Append(ls, l) : ls \in {x \in LinesUpTo(n - 1) : Len(x) = n - 1}, l \in Lines}

Bodies == {Body(ls) : ls \in LinesUpTo(MaxLines)}

RECURSIVE Split(_)
\* chunk.split('\n')
Split(chunk) ==
    IF \A i \in 1..Len(chunk) : chunk[i] # "nl" THEN <<chunk>>
    ELSE LET i == CHOOSE j \in 1..Len(chunk) :
                      chunk[j] = "nl" /\ \A k \in 1..(j - 1) : chunk[k] # "nl"
         IN  <<SubSeq(chunk, 1, i - 1)>> \o Split(SubSeq(chunk, i + 1, Len(chunk)))

\* line.trim() is not the empty string
NotBlank(line) == \E i \in 1..Len(line) : line[i] # " "

\* JSON.parse(line): an event object, a bare string without a type, or a
\* SyntaxError
Parse(line) ==
    IF Len(line) = 4 /\ line[1] = "{" /\ line[2] \in Tags
                     /\ line[3] \in Payloads /\ line[4] = "}"
      THEN [ok |-> TRUE, type |-> line[2], value |-> line[3]]
    ELSE IF Len(line) = 1 /\ line[1] \in Payloads
      THEN [ok |-> TRUE, type |-> "undefined", value |-> line[1]]
    ELSE [ok |-> FALSE, type |-> "SyntaxError", value |-> ""]

\* the body of the try block for one parsed line
OnEvent(u, data) ==
    IF data.type = "p" THEN [u EXCEPT !.currentDomain = data.value]
    ELSE IF data.type = "r"
      THEN [u EXCEPT !.results = Append(@, data.value),
                     !.completedDomains = @ + 1,
                     !.currentDomain = ""]
    ELSE IF data.type = "e"
      THEN [u EXCEPT !.errors = Append(@, data.value),
                     !.completedDomains = @ + 1]
    ELSE u

RECURSIVE ProcessLinesFatal(_, _)
\* a loop that a SyntaxError leaves
ProcessLinesFatal(u, lines) ==
    IF lines = <<>> THEN u
    ELSE IF ~Parse(Head(lines)).ok THEN u
    ELSE ProcessLinesFatal(OnEvent(u, Parse(Head(lines))), Tail(lines))

RECURSIVE ProcessLines(_, _)
\* for (const line of lines) { try { ... } catch (e) { console.error } }
ProcessLines(u, lines) ==
    IF lines = <<>> THEN u
    ELSE IF ~Parse(Head(lines)).ok THEN ProcessLines(u, Tail(lines))
    ELSE ProcessLines(OnEvent(u, Parse(Head(lines))), Tail(lines))

\* one turn of the while loop on a chunk that reader.read() delivered
OnChunk(u, chunk) == ProcessLines(u, SelectSeq(Split(chunk), NotBlank))

\* catch (error) and finally of startExtraction
GeneralError(u, message) ==
    [u EXCEPT !.pc = "failed",
              !.errors = Append(@, message),
              !.processing = FALSE,
              !.currentDomain = ""]

ServerIdle == UNCHANGED <<call, hist, entry, req, pos, dom, stream, resp, bulk>>

\* startExtraction up to the first reader.read(): the state is reset, the
\* request is sent and a response with status 200 begins
StartExtraction ==
    /\ ui.pc # "reading"
    /\ \E t \in Bodies :
         ui' = [NoPage EXCEPT !.pc = "reading", !.processing = TRUE,
                              !.text = t, !.rest = t]
    /\ ServerIdle

\* the response is not ok, or fetch rejects
ResponseNotOk ==
    /\ ui.pc # "reading"
    /\ \E m \in {"HTTP error! status: 400", "HTTP error! status: 500", "Failed to fetch"} :
         ui' = GeneralError(NoPage, m)
    /\ ServerIdle

\* reader.read() resolves with the next n characters of the body
ReaderRead ==
    /\ ui.pc = "reading"
    /\ ui.rest # <<>>
    /\ \E n \in 1..Len(ui.rest) :
         ui' = OnChunk([ui EXCEPT !.rest = SubSeq(@, n + 1, Len(@))],
                       SubSeq(ui.rest, 1, n))
    /\ ServerIdle

\* reader.read() resolves with done
ReaderDone ==
    /\ ui.pc = "reading"
    /\ ui.rest = <<>>
    /\ ui' = [ui EXCEPT !.pc = "done", !.processing = FALSE, !.currentDomain = ""]
    /\ ServerIdle

\* reader.read() rejects: the connection was lost
ReaderFails ==
    /\ ui.pc = "reading"
    /\ ui' = GeneralError(ui, "network error")
    /\ ServerIdle

NextPage ==
    \/ StartExtraction
    \/ ResponseNotOk
    \/ ReaderRead
    \/ ReaderDone
    \/ ReaderFails

SpecPage == InitServer /\ [][NextPage]_vars

\* the page when every line of the body arrives whole in its own chunk
WholeLines(text) == ProcessLines(NoPage, Split(text))

\* the body is one the server writes: a progress event and then a result
\* or an error event for each domain
ServerBody(text) ==
    LET ls == SelectSeq(Split(text), LAMBDA l : l # <<>>)
    IN  /\ text = Body(ls)
        /\ \A i \in 1..Len(ls) :
             Parse(ls[i]).type \in (IF i % 2 = 1 THEN {"p"} ELSE {"r", "e"})
        /\ Len(ls) % 2 = 0

\* C16: for every split of the server's event stream into chunks, a split
\* in the middle of a line included, startExtraction ends with the same
\* results, errors and completedDomains as when every line arrives whole
\* in its own chunk.
C16_ChunkingDoesNotMatter ==
    (ui.pc = "done" /\ ServerBody(ui.text)) =>
        /\ ui.results = WholeLines(ui.text).results
        /\ ui.errors = WholeLines(ui.text).errors
        /\ ui.completedDomains = WholeLines(ui.text).completedDomains

\* the reader takes a chunk: the only step that shortens what is left of
\* the body while the loop goes on
ChunkRead == ui.pc = "reading" /\ ui'.pc = "reading" /\ Len(ui'.rest) < Len(ui.rest)

\* the lines of a chunk that parse, in order
Parsable(chunk) ==
    SelectSeq(SelectSeq(Split(chunk), NotBlank), LAMBDA l : Parse(l).ok)

\* the payloads of the events of one type among parsed lines
Payload(lines, tag) ==
    LET of == SelectSeq(lines, LAMBDA l : Parse(l).type = tag)
    IN  [i \in 1..Len(of) |-> Parse(of[i]).value]

\* C17: in the stream consumer a line that fails to parse is skipped and is
\* not fatal: it changes none of results, errors and completedDomains, and
\* the lines after it that do parse are still processed, so a chunk has the
\* effect of its parsable lines alone.
C17_MalformedLineSkipped ==
    [][ChunkRead =>
         LET chunk == SubSeq(ui.rest, 1, Len(ui.rest) - Len(ui'.rest))
             good == Parsable(chunk)
         IN  /\ ui'.results = ui.results \o Payload(good, "r")
             /\ ui'.errors = ui.errors \o Payload(good, "e")
             /\ ui'.completedDomains =
                  ui.completedDomains + Len(Payload(good, "r")) + Len(Payload(good, "e"))]_vars

\* a truncated line was followed by a result line, and the result is shown
C17_Witness ==
    /\ ui.pc = "done"
    /\ ui.text = Body(<< <<"{", "r">>, EventLine("r", "a") >>)
    /\ ui.results = <<"a">>
    /\ ui.errors = <<>>
    /\ ui.completedDomains = 1

(***************************************************************************)
(* The two columns of the page, src/public/js/app.js 24-30 and 149-279.    *)
(* A text is a sequence of characters.  Of the keyword list the model      *)
(* keeps the one keyword of three characters, 'xxx', and one longer one,   *)
(* 'loan', in the order of the list; of the legitimate patterns it keeps   *)
(* 'app'.                                                                  *)
(***************************************************************************)
MaxPieces == 2

Xxx == <<"x", "x", "x">>

Loan == <<"l", "o", "a", "n">>

App == <<"a", "p", "p">>

spamKeywords == <<Xxx, Loan>>

\* [A-Za-z0-9_], the characters that \b takes as part of a word
WordChars == {"x", "l", "o", "a", "n", "p", "s", "X", "L", "_"}

\* String.prototype.toLowerCase
toLowerCase(text) ==
    [i \in 1..Len(text) |->
        IF text[i] = "X" THEN "x" ELSE IF text[i] = "L" THEN "l" ELSE text[i]]

\* text.includes(keyword)
includes(text, keyword) ==
    \E i \in 1..(Len(text) - Len(keyword) + 1) :
        SubSeq(text, i, i + Len(keyword) - 1) = keyword

\* \b before position i: one of the characters at i - 1 and i is of a word,
\* the other is not or is missing
WordBoundary(text, i) ==
    LET word(j) == j \in 1..Len(text) /\ text[j] \in WordChars
    IN  word(i - 1) # word(i)

\* new RegExp(`\\b${keyword}\\b`, 'i').test(text)
RegExpTest(keyword, text) ==
    \E i \in 1..(Len(text) - Len(keyword) + 1) :
        /\ WordBoundary(text, i)
        /\ toLowerCase(SubSeq(text, i, i + Len(keyword) - 1)) = toLowerCase(keyword)
        /\ WordBoundary(text, i + Len(keyword))

\* a match that looks for every keyword as a substring
matchesSpamKeywordAnywhere(text, keyword) == includes(text, keyword)

matchesSpamKeyword(text, keyword) ==
    IF Len(keyword) <= 3 THEN RegExpTest(keyword, text) ELSE includes(text, keyword)

isLegitimatePattern(domain) == includes(domain, App)

categorizeSpam(keyword) ==
    IF keyword = Xxx THEN "Contenu adulte"
    ELSE IF keyword = Loan THEN "Finance suspect"
    ELSE "Spam/Suspect"

isSpamCategory(category) ==
    category \in {"Casino/Jeux", "Contenu adulte", "Spam/Suspect", "Pharma/Sante",
                  "Finance suspect", "Contrefacon", "Piratage"}

\* a search that keeps the last keyword of the list that matches
LastKeyword(text) ==
    LET hits == {k \in 1..Len(spamKeywords) : matchesSpamKeyword(text, spamKeywords[k])}
    IN  IF hits = {} THEN <<>>
        ELSE <<spamKeywords[CHOOSE k \in hits : \A h \in hits : k >= h]>>

\* the first keyword of the list that the text matches, or none
FirstKeyword(text) ==
    LET hits == {k \in 1..Len(spamKeywords) : matchesSpamKeyword(text, spamKeywords[k])}
    IN  IF hits = {} THEN <<>>
        ELSE <<spamKeywords[CHOOSE k \in hits : \A h \in hits : k <= h]>>

Verdict(spam, category) == [spam |-> spam, spamCategory |-> category]

RECURSIVE CheckSnapshots(_)
\* for (const snapshot of snapshots): the keywords on title and description,
\* then the category of the classifier
CheckSnapshots(snapshots) ==
    IF snapshots = <<>> THEN Verdict(FALSE, <<>>)
    ELSE LET snapshot == Head(snapshots)
             text == toLowerCase(snapshot.title) \o <<" ">> \o toLowerCase(snapshot.description)
         IN  IF FirstKeyword(text) # <<>>
               THEN Verdict(TRUE, <<categorizeSpam(FirstKeyword(text)[1])>>)
             ELSE IF snapshot.category # <<>> /\ isSpamCategory(snapshot.category[1])
               THEN Verdict(TRUE, snapshot.category)
             ELSE CheckSnapshots(Tail(snapshots))

\* a check that looks at the keywords before the legitimate patterns
isSpamDomainKeywordsFirst(domainResult) ==
    LET domain == toLowerCase(domainResult.domain)
    IN  IF FirstKeyword(domain) # <<>>
          THEN Verdict(TRUE, <<categorizeSpam(FirstKeyword(domain)[1])>>)
        ELSE IF isLegitimatePattern(domain) THEN Verdict(FALSE, <<>>)
        ELSE CheckSnapshots(domainResult.snapshots)

\* what isSpamDomain returns and what it leaves in domainResult.spamCategory
isSpamDomain(domainResult) ==
    LET domain == toLowerCase(domainResult.domain)
    IN  IF isLegitimatePattern(domain) THEN Verdict(FALSE, <<>>)
        ELSE IF FirstKeyword(domain) # <<>>
          THEN Verdict(TRUE, <<categorizeSpam(FirstKeyword(domain)[1])>>)
        ELSE CheckSnapshots(domainResult.snapshots)

\* a check that trusts the category left by an earlier evaluation
isCleanDomainByCategory(domainResult) == domainResult.spamCategory = <<>>

isCleanDomain(domainResult) == ~isSpamDomain(domainResult).spam

\* the getters cleanSites and spamSites
cleanSites(results) == SelectSeq(results, isCleanDomain)

spamSites(results) == SelectSeq(results, LAMBDA d : isSpamDomain(d).spam)

\* the results after the getters ran: isSpamDomain has set spamCategory on
\* those it found to be spam
Marked(results) ==
    [i \in 1..Len(results) |->
        IF isSpamDomain(results[i]).spam
          THEN [results[i] EXCEPT !.spamCategory = isSpamDomain(results[i]).spamCategory]
          ELSE results[i]]

RECURSIVE Texts(_, _)
\* the texts made of at most n of the given pieces
Texts(pieces, n) ==
    IF n = 0 THEN {<<>>}
    ELSE Texts(pieces, n - 1) \cup {t \o p : t \in Texts(pieces, n - 1), p \in pieces}

DomainNames == Texts({Xxx, Loan, App, <<"s">>, <<".">>}, MaxPieces) \ {<<>>}

Titles ==
    {<<>>, <<"s">>, Xxx, <<"X", "X", "X">>, <<"s">> \o Xxx, <<"s", " ">> \o Xxx,
     <<"s", "_">> \o Xxx, <<"L", "o", "a", "n">>, <<"s">> \o Loan \o <<"s">>}

\* the snapshots of a result; the classifier is asked only about a snapshot
\* with a title
SnapshotInputs ==
    {s \in [title : Titles, description : {<<>>, Loan, Xxx},
            category : {<<>>, <<"Clean">>, <<"Casino/Jeux">>, <<"Spam generique">>}] :
        s.category # <<>> => s.title # <<>>}

DomainResults ==
    [domain : DomainNames,
     snapshots : {<<>>} \cup {<<s>> : s \in SnapshotInputs}
                        \cup {<<s, [title |-> Loan, description |-> <<>>, category |-> <<>>]>> :
                                 s \in SnapshotInputs},
     spamCategory : {<<>>}]

\* the page after an extraction that brought one result
InitClassify ==
    /\ call = NoCall
    /\ hist = <<>>
    /\ entry = "none"
    /\ req = NoRequest
    /\ pos = 0
    /\ dom = Idle
    /\ stream = <<>>
    /\ resp = NotStarted
    /\ bulk = NoBulk
    /\ ui \in {[NoPage EXCEPT !.pc = "done", !.results = <<d>>, !.completedDomains = 1] :
                 d \in DomainResults}

\* the page draws its two columns: both getters run
Render ==
    /\ ui.columns = <<>>
    /\ ui' = [ui EXCEPT !.results = Marked(ui.results),
                        !.columns = <<[clean |-> cleanSites(ui.results),
                                       spam |-> spamSites(ui.results)]>>]
    /\ ServerIdle

SpecClassify == InitClassify /\ [][Render]_vars

\* the labels of the classifier that stand for suspicious content
\* (the prompt of analyzeWithPerplexity and its fallback)
SuspectLabels ==
    {"Casino/Jeux", "Contenu adulte", "Pharma/Sante", "Finance suspect",
     "Contrefacon", "Piratage", "Spam generique", "Spam/Suspect"}

Rendered == ui.columns # <<>>

Shown == {ui.results[i] : i \in 1..Len(ui.results)}

InColumn(column, d) ==
    \E j \in 1..Len(column) :
        column[j].domain = d.domain /\ column[j].snapshots = d.snapshots

OnSpamSide(d) == InColumn(ui.columns[1].spam, d) /\ ~InColumn(ui.columns[1].clean, d)

OnCleanSide(d) == InColumn(ui.columns[1].clean, d) /\ ~InColumn(ui.columns[1].spam, d)

\* the categories that the classifier gave to the snapshots of a result
Tier2Labels(d) ==
    {d.snapshots[k].category[1] :
        k \in {j \in 1..Len(d.snapshots) : d.snapshots[j].category # <<>>}}

\* C18: when a snapshot of a domain carries a category of the external
\* classifier, that category decides the final classification whenever the
\* two tiers disagree: the domain is listed as spam, under that category,
\* if the label is a suspicious one, and as clean otherwise, whatever the
\* keywords say.
C18_Tier2TakesPrecedence ==
    Rendered =>
        \A d \in Shown : \A c \in Tier2Labels(d) :
            Tier2Labels(d) = {c} =>
                IF c \in SuspectLabels
                  THEN OnSpamSide(d) /\ d.spamCategory = <<c>>
                  ELSE OnCleanSide(d)

\* C19: if the domain name matches a legitimate pattern, the domain is
\* listed as clean whatever keywords its name or the titles and
\* descriptions of its snapshots contain.
C19_LegitimatePatternShortCircuits ==
    Rendered =>
        \A d \in Shown :
            isLegitimatePattern(toLowerCase(d.domain)) =>
                OnCleanSide(d) /\ d.spamCategory = <<>>

\* app.loan with a snapshot titled xxx and described loan is listed as clean
C19_Witness ==
    /\ Rendered
    /\ \E d \in Shown :
         /\ d.domain = App \o Loan
         /\ d.snapshots = <<[title |-> Xxx, description |-> Loan, category |-> <<>>]>>
         /\ OnCleanSide(d)
         /\ d.spamCategory = <<>>

\* the keyword occurs in the text at position i, letter case apart
Occurs(keyword, text, i) ==
    /\ i + Len(keyword) - 1 <= Len(text)
    /\ \A j \in 1..Len(keyword) : toLowerCase(<<text[i + j - 1]>>) = <<keyword[j]>>

\* the n characters from position i are not part of a longer word
StandsAlone(text, i, n) ==
    /\ i = 1 \/ text[i - 1] \notin WordChars
    /\ i + n > Len(text) \/ text[i + n] \notin WordChars

Tier1Hit(text) ==
    \E k \in 1..Len(spamKeywords) : \E i \in 1..Len(text) :
        /\ Occurs(spamKeywords[k], text, i)
        /\ Len(spamKeywords[k]) <= 3 => StandsAlone(text, i, Len(spamKeywords[k]))

\* the texts that the keywords are looked for in
Tier1Texts(d) ==
    {d.domain} \cup {d.snapshots[k].title \o <<" ">> \o d.snapshots[k].description :
                        k \in 1..Len(d.snapshots)}

\* C20: keyword matching of the heuristic is case-insensitive and depends
\* on the length of the keyword: a keyword of at most 3 characters matches
\* only where it stands between word boundaries, a longer keyword wherever
\* it occurs as a substring.  A domain without a legitimate pattern is
\* listed as spam if one of its texts has such a match, and, when no
\* snapshot carries a spam category, only then.
C20_KeywordMatchingRule ==
    Rendered =>
        \A d \in Shown :
            ~isLegitimatePattern(toLowerCase(d.domain)) =>
                /\ (\E t \in Tier1Texts(d) : Tier1Hit(t)) => OnSpamSide(d)
                /\ (OnSpamSide(d) /\ \A c \in Tier2Labels(d) : ~isSpamCategory(c)) =>
                       \E t \in Tier1Texts(d) : Tier1Hit(t)

\* a title XXX in capitals, standing alone, puts the domain on the spam side
C20_Witness ==
    /\ Rendered
    /\ \E d \in Shown :
         /\ d.domain = <<"s">>
         /\ d.snapshots = <<[title |-> <<"X", "X", "X">>, description |-> <<>>,
                             category |-> <<>>]>>
         /\ OnSpamSide(d)
         /\ d.spamCategory = <<"Contenu adulte">>

(***************************************************************************)
(* GET /api/v1/extract/:domain, src/server.js 268-306.  The values of the  *)
(* query string: snapshots is a text, <<>> when absent; unique and analyze *)
(* are <<>> when absent and else hold their value; apiKey is "" when       *)
(* absent.                                                                 *)
(***************************************************************************)
DigitValue ==
    [c \in {"0", "1", "2", "3", "4", "5", "6", "7", "8", "9"} |->
        CASE c = "0" -> 0 [] c = "1" -> 1 [] c = "2" -> 2 [] c = "3" -> 3
          [] c = "4" -> 4 [] c = "5" -> 5 [] c = "6" -> 6 [] c = "7" -> 7
          [] c = "8" -> 8 [] c = "9" -> 9]

RECURSIVE Digits(_, _)
\* the number that the leading digits of s spell after acc; what follows the
\* digits is ignored
Digits(s, acc) ==
    IF s = <<>> \/ Head(s) \notin DOMAIN DigitValue THEN acc
    ELSE Digits(Tail(s), 10 * acc + DigitValue[Head(s)])

\* parseInt(snapshots) with `snapshots = 5` for an absent parameter; the
\* texts of the model all start with a digit or with a sign and a digit
ParseInt(s) ==
    IF s = <<>> THEN 5
    ELSE IF Head(s) = "-" THEN 0 - Digits(Tail(s), 0)
    ELSE Digits(s, 0)

\* the handler up to `await processDomain(...)`; q is req.query
GetRequest(q) ==
    Request([t |-> "param", items |-> <<Str(<<"a">>)>>], ParseInt(q.snapshots),
            q.unique = <<"true">>, <<q.analyze = <<"true">>, q.apiKey>>)

\* res.json({ success: true, ... }) or res.status(500).json({ success: false, ... })
GetResponse(d) == [status |-> IF d.pc = "done" THEN 200 ELSE 500, ended |-> TRUE]

\* processDomain has settled: the handler answers
GetHandlerResumes ==
    /\ entry = "get"
    /\ dom.pc \in {"done", "failed"}
    /\ ~resp.ended
    /\ resp' = GetResponse(dom)
    /\ UNCHANGED <<bulk, ui, call, hist, entry, req, pos, dom, stream>>

(***************************************************************************)
(* SpecSnapshot: GET /api/v1/extract/:domain?snapshots=1 against an        *)
(* archive that serves any document and a classifier that replies          *)
(* anything.  hist lists the answers of the archive and of the classifier  *)
(* to the one snapshot task, in order.                                     *)
(***************************************************************************)
\* documents with and without each of the elements extractFromSnapshot reads
Docs ==
    [titles : {<<>>, << <<" ", "H", "i", " ">> >>, << <<"x">>, <<"H", "i">> >>},
     description : {<<>>, << <<"d">> >>},
     canonical : {<<>>, << <<"c">> >>},
     robots : {<<>>, << <<"r">> >>},
     ogTitle : {<<>>, << <<"o">> >>},
     ogDescription : {<<>>, << <<"g">> >>},
     h1 : {0, 2}]

ArchiveAnswers ==
    {Transport("ECONNRESET"), Http(200, Unreadable)}
      \cup {Http(200, HtmlBody(doc)) : doc \in Docs}

\* failures of the classifier, a reply without choices, and replies in and
\* out of the list of categories
ClassifierAnswers ==
    {Transport("ECONNRESET"), Http(500, TextBody(0)), Http(429, TextBody(0)),
     Http(200, NotJson), Http(200, JsonBody(<<>>))}
      \cup {Http(200, JsonBody(<<reply>>)) :
               reply \in {"", "banana", "Spam/Suspect", "Clean", "Casino/Jeux", "Tech"}}

\* a GET /api/v1/extract/a?snapshots=1 request arrives
GetApiV1ExtractOne ==
    /\ entry = "none"
    /\ \E analyze \in {<<>>, <<"true">>}, apiKey \in {"", "key"} :
         \E r \in {GetRequest([snapshots |-> <<"1">>, unique |-> <<>>,
                               analyze |-> analyze, apiKey |-> apiKey])} :
             /\ req' = r
             /\ dom' = Activation("server", <<"a">>, r.n, r.unique,
                                  r.analyzeContent, r.apiKey)
    /\ entry' = "get"
    /\ UNCHANGED <<bulk, ui, call, hist, pos, stream, resp>>

\* the archive answers the request of the snapshot task
ArchiveAnswersSnapshot ==
    /\ dom.pc = "snaps"
    /\ \E k \in 1..Len(dom.tasks) :
         /\ dom.tasks[k].pc = "fetch"
         /\ dom.tasks[k].call.pc = "fetch"
         /\ \E o \in ArchiveAnswers :
              /\ Commit(AfterSnap(dom, k, OnResponse(dom.tasks[k].call, o)))
              /\ hist' = Append(hist, o)
    /\ UNCHANGED <<bulk, ui, call, entry, req>>

\* the classifier answers the request of the snapshot task
ClassifierAnswersSnapshot ==
    /\ dom.pc = "snaps"
    /\ \E k \in 1..Len(dom.tasks) :
         /\ dom.tasks[k].pc = "classify"
         /\ \E c \in ClassifierAnswers :
              /\ Commit(AfterClassify(dom, k, c))
              /\ hist' = Append(hist, c)
    /\ UNCHANGED <<bulk, ui, call, entry, req>>

NextSnapshot ==
    \/ GetApiV1ExtractOne
    \/ IndexSettles
    \/ IndexTimer
    \/ ArchiveAnswersSnapshot
    \/ SnapTimer
    \/ ClassifierAnswersSnapshot
    \/ GetHandlerResumes

SpecSnapshot == InitServer /\ [][NextSnapshot]_vars

(***************************************************************************)
(* Claims about the classifier and the extraction, under SpecSnapshot.     *)
(***************************************************************************)
\* the SnapshotResults that the activation holds: returned ones and the one
\* a task keeps while the classifier is asked
Held(d) ==
    {d.slots[k][1] : k \in {j \in 1..Len(d.slots) : d.slots[j] # <<>>}}
      \cup {d.tasks[k].snap[1] : k \in {j \in 1..Len(d.tasks) : d.tasks[j].snap # <<>>}}

\* task k was waiting for the classifier and this step brings its answer
ClassifierAnswered(k) ==
    /\ k \in 1..Len(dom.tasks)
    /\ dom.tasks[k].pc = "classify"
    /\ dom'.tasks[k].pc = "done"
    /\ hist' # hist

\* the classifier answered 2xx with a JSON document
Replied(c) == Ok(c) /\ c.body.t = "json"

CategoryFromAllowList ==
    \A snapshot \in Held(dom) :
        snapshot.category # <<>> =>
            snapshot.category[1] \in ValidCategories \cup {"Spam/Suspect"}

ReplyOutsideListCoerced ==
    \A k \in 1..Len(dom.tasks) :
        (ClassifierAnswered(k) /\ Replied(Last(hist'))) =>
            LET reply == Last(hist').body.rows
            IN  dom'.slots[k][1].category =
                  IF reply # <<>> /\ reply[1] \in ValidCategories
                    THEN <<reply[1]>> ELSE <<"Spam/Suspect">>

\* C21: the category of a SnapshotResult is always one of the allowed
\* labels or 'Spam/Suspect': a reply of the classifier that is not in the
\* list, an empty or a missing reply included, is stored as 'Spam/Suspect'
\* and never as it came.
C21_CategoryIsAllowedOrSuspect ==
    [](CategoryFromAllowList) /\ [][ReplyOutsideListCoerced]_vars

\* the classifier replied 'banana' and the snapshot is labelled Spam/Suspect
C21_Witness ==
    /\ hist # <<>>
    /\ Last(hist) = Http(200, JsonBody(<<"banana">>))
    /\ dom.pc = "done"
    /\ dom.slots[1][1].category = <<"Spam/Suspect">>

\* the classifier call failed: the request failed, the status is not 2xx,
\* or the body cannot be read as JSON
ClassifierFailed(c) == c.kind = "transport" \/ ~Ok(c) \/ c.body.t # "json"

\* the step leaves task k with the SnapshotResult it held, nothing added
Tier2FailureSwallowed ==
    \A k \in 1..Len(dom.tasks) :
        (ClassifierAnswered(k) /\ ClassifierFailed(Last(hist'))) =>
            /\ dom'.slots[k] = dom.tasks[k].snap
            /\ dom'.slots[k][1].category = <<>>
            /\ dom'.slots[k][1].error = <<>>
            /\ dom'.slots[k][1].title # <<>>
            /\ dom'.pc # "failed"

\* C22: a failure of the classifier call (network error, status outside
\* 2xx, unreadable reply) never propagates: the snapshot is returned as a
\* successful SnapshotResult with its extracted metadata and no category,
\* it carries no error, and processDomain does not fail.
C22_Tier2FailureNeverPropagates == [][Tier2FailureSwallowed]_vars

\* the classifier answered 500 and the request ended with status 200 and a
\* snapshot without category and without error
C22_Witness ==
    /\ hist # <<>>
    /\ Last(hist) = Http(500, TextBody(0))
    /\ resp = GetResponse(dom)
    /\ resp.status = 200
    /\ dom.slots[1][1].category = <<>>
    /\ dom.slots[1][1].error = <<>>
    /\ dom.slots[1][1].h1_count = 2

\* the archive answers task k with a document that can be read
DocumentArrived(k) ==
    /\ k \in 1..Len(dom.tasks)
    /\ dom.tasks[k].pc = "fetch"
    /\ hist' # hist
    /\ Ok(Last(hist'))
    /\ Last(hist').body.t = "html"

\* the value of a field: empty when no element matches, else what the first
\* matching element holds
FieldOf(values, got) ==
    IF values = <<>> THEN got = <<>> ELSE got = values[1]

FieldsExtractedIndependently ==
    \A k \in 1..Len(dom.tasks) :
        DocumentArrived(k) =>
            LET doc == Last(hist').body.doc
                got == dom'.tasks[k].snap[1]
            IN  /\ dom'.tasks[k].snap # <<>>
                /\ got.error = <<>>
                /\ IF doc.titles = <<>> THEN got.title = <<>>
                   ELSE got.title = Trim(doc.titles[1])
                /\ FieldOf(doc.description, got.description)
                /\ FieldOf(doc.canonical, got.canonical)
                /\ FieldOf(doc.robots, got.robots)
                /\ FieldOf(doc.ogTitle, got.og_title)
                /\ FieldOf(doc.ogDescription, got.og_description)
                /\ got.h1_count = doc.h1

\* C23: extractFromSnapshot never fails because an element is absent: a
\* field whose element the document lacks is the empty string (h1_count 0)
\* and the other fields are extracted all the same.
C23_AbsentElementsGiveEmptyFields == [][FieldsExtractedIndependently]_vars

\* a document with the title ' Hi ', two h1 and no meta tag gave title 'Hi',
\* h1_count 2 and every other field empty
C23_Witness ==
    /\ hist # <<>>
    /\ Last(hist) = Http(200, HtmlBody([NoDoc EXCEPT !.titles = << <<" ", "H", "i", " ">> >>,
                                                     !.h1 = 2]))
    /\ dom.pc = "done"
    /\ LET got == dom.slots[1][1]
       IN  /\ got.title = <<"H", "i">>
           /\ got.h1_count = 2
           /\ got.description = <<>> /\ got.canonical = <<>> /\ got.robots = <<>>
           /\ got.og_title = <<>> /\ got.og_description = <<>>
           /\ got.error = <<>>

\* classification was requested with a credential and the snapshot was
\* extracted with a title
MayClassify(snapshot) ==
    /\ req.analyzeContent
    /\ req.apiKey # ""
    /\ snapshot.error = <<>>
    /\ snapshot.title # <<>>

ClassifierCallsAreWanted ==
    /\ \A k \in 1..Len(dom.tasks) :
         dom.tasks[k].pc = "classify" => MayClassify(dom.tasks[k].snap[1])
    /\ \A snapshot \in Held(dom) : snapshot.category # <<>> => MayClassify(snapshot)

\* when the archive has answered task k, the classifier is called exactly if
\* the conditions hold; otherwise the task ends at once, without category
ClassifierCalledOnlyWhenWanted ==
    \A k \in 1..Len(dom.tasks) :
        (dom.tasks[k].pc = "fetch" /\ dom'.tasks[k].pc \in {"classify", "done"}) =>
            IF dom'.tasks[k].snap # <<>> /\ MayClassify(dom'.tasks[k].snap[1])
              THEN dom'.tasks[k].pc = "classify"
              ELSE /\ dom'.tasks[k].pc = "done"
                   /\ dom'.slots[k][1].category = <<>>

\* C28: the classifier is called for a snapshot only when classification
\* was requested, a credential was supplied, the extraction of the snapshot
\* succeeded and its title is not empty; in every other case no call is
\* made and the SnapshotResult has no category.
C28_ClassifierOnlyWhenWanted ==
    [](ClassifierCallsAreWanted) /\ [][ClassifierCalledOnlyWhenWanted]_vars

\* analysis was requested with a key, the document had no title: the task
\* ended without a call to the classifier
C28_Witness ==
    /\ req.analyzeContent
    /\ req.apiKey = "key"
    /\ dom.pc = "done"
    /\ Len(hist) = 1
    /\ Ok(hist[1])
    /\ hist[1].body.t = "html"
    /\ hist[1].body.doc.titles = <<>>
    /\ dom.slots[1][1].title = <<>>
    /\ dom.slots[1][1].category = <<>>
    /\ dom.slots[1][1].error = <<>>

(***************************************************************************)
(* Claims about the index query and its rows, under SpecDomain.            *)
(***************************************************************************)
\* the query asks the index to collapse rows of equal digest
AsksCollapse(url) ==
    \E i \in 1..(Len(url) - 1) : url[i] = "collapse" /\ url[i + 1] = "digest"

\* the rows of the index answer after its header
RowsAfterHeader(json) == IF json = <<>> THEN <<>> ELSE Tail(json)

\* two neighbours of a list of records carry the same digest
SameDigestTwice(snapshots) ==
    \E i \in 1..(Len(snapshots) - 1) : snapshots[i].digest = snapshots[i + 1].digest

\* C24 as stated: when processing is requested with unique, the returned
\* DomainResult never holds two consecutive SnapshotResults with the same
\* content digest.
C24_UniqueNeverRepeatsDigest ==
    (dom.pc = "done" /\ req.unique) => ~SameDigestTwice(Snapshots(dom))

\* C24, amended: when processing is requested with unique, the index query
\* carries collapse=digest (and only then), and the result lists the rows of
\* the index answer one for one with their digests: two consecutive
\* SnapshotResults have the same digest exactly where two consecutive rows
\* of the index answer do; the program itself removes no row.
C24_UniqueIsLeftToTheIndex ==
    /\ (dom.pc = "index" /\ dom.idx.pc \in {"fetch", "sleep"}) =>
         (AsksCollapse(dom.idx.url) <=> req.unique)
    /\ (dom.pc = "done" /\ dom.json # <<>>) =>
         LET data == RowsAfterHeader(dom.json[1])
         IN  /\ Len(Snapshots(dom)) = Len(data)
             /\ \A i \in 1..Len(data) : Snapshots(dom)[i].digest = At(data[i], 5)

\* unique was requested, the index answered with the same row twice, and
\* the result holds two snapshots of digest D1
C24_Witness ==
    /\ req.unique
    /\ dom.pc = "done"
    /\ dom.json = << <<Header, Row1, Row1>> >>
    /\ Len(Snapshots(dom)) = 2
    /\ Snapshots(dom)[1].digest = "D1"
    /\ Snapshots(dom)[2].digest = "D1"

(***************************************************************************)
(* SpecGet: GET /api/v1/extract/:domain with any snapshots and unique      *)
(* parameter, against an index that answers with rows of any shape.        *)
(***************************************************************************)
\* values of the snapshots parameter: absent, and the texts of some numbers
SnapshotsParams ==
    {<<>>, <<"0">>, <<"-", "3">>, <<"1">>, <<"2">>, <<"2", "0">>, <<"2", "5">>}

\* a row that ends after its digest
RowShort == <<"20220101000000", "http://a/x", "text/html", "200", "D3">>

\* the index is asked for the latest n captures; asked for none or for a
\* negative number it answers as it likes
GetIndexAnswers ==
    LET bound == IF req.n >= 1 THEN Min(req.n, RowBound) ELSE RowBound
    IN  {Transport("ECONNRESET"), Http(503, TextBody(10)), Http(200, NotJson),
         Http(200, JsonBody(<<>>))}
          \cup {Http(200, JsonBody(<<Header>> \o rows)) :
                   rows \in UNION {[1..m -> {Row1, Row2, RowShort}] : m \in 0..bound}}

GetArchiveAnswers == {Http(200, HtmlBody(DocHello)), Http(200, Unreadable)}

\* a GET /api/v1/extract/a request arrives
GetApiV1Extract ==
    /\ entry = "none"
    /\ \E snapshots \in SnapshotsParams, unique \in {<<>>, <<"true">>, <<"false">>} :
         \E r \in {GetRequest([snapshots |-> snapshots, unique |-> unique,
                               analyze |-> <<>>, apiKey |-> ""])} :
             /\ req' = r
             /\ dom' = Activation("server", <<"a">>, r.n, r.unique,
                                  r.analyzeContent, r.apiKey)
    /\ entry' = "get"
    /\ UNCHANGED <<bulk, ui, call, hist, pos, stream, resp>>

\* the index answers the query of getCdxRows
IndexAnswersGet ==
    /\ dom.pc = "index"
    /\ dom.idx.pc = "fetch"
    /\ \E o \in GetIndexAnswers : Commit(AfterIndex(dom, OnResponse(dom.idx, o)))
    /\ UNCHANGED <<bulk, ui, call, hist, entry, req>>

\* the archive answers the request of snapshot task k
ArchiveAnswersGet ==
    /\ dom.pc = "snaps"
    /\ \E k \in 1..Len(dom.tasks) :
         /\ dom.tasks[k].pc = "fetch"
         /\ dom.tasks[k].call.pc = "fetch"
         /\ \E o \in GetArchiveAnswers :
              Commit(AfterSnap(dom, k, OnResponse(dom.tasks[k].call, o)))
    /\ UNCHANGED <<bulk, ui, call, hist, entry, req>>

NextGet ==
    \/ GetApiV1Extract
    \/ IndexAnswersGet
    \/ IndexTimer
    \/ ArchiveAnswersGet
    \/ GetHandlerResumes

SpecGet == InitServer /\ [][NextGet]_vars

(***************************************************************************)
(* Claims about the index query of the GET endpoint, under SpecGet.        *)
(***************************************************************************)
\* "max: 20" of GET /api/v1/docs
MaxSnapshots == 20

\* getCdxRows is waiting for the index
IndexAsked == dom.pc = "index" /\ dom.idx.pc \in {"fetch", "sleep"}

\* the number of query parameters called key
Count(url, key) == Cardinality({i \in 1..Len(url) : url[i] = key})

\* the query holds parameter key with the given value
Has(url, key, value) ==
    \E i \in 1..(Len(url) - Len(value)) :
        /\ url[i] = key
        /\ \A j \in 1..Len(value) : url[i + j] = value[j]

\* C26: the snapshot count used in an index query issued by the server
\* endpoints is always an integer between 1 and 20, whatever snapshots value
\* the request carries.
C26_CountBetween1And20 ==
    IndexAsked => \E k \in 1..MaxSnapshots : Has(dom.idx.url, "limit", <<"-", ToString(k)>>)

\* C29: getCdxRows builds the index request with limit = -N for the
\* requested count N, both filters (mimetype:text/html and statuscode:200),
\* the six-field list, and collapse=digest if and only if unique is set.
C29_IndexRequestShape ==
    IndexAsked =>
        /\ Has(dom.idx.url, "limit", <<"-", ToString(req.n)>>)
        /\ Count(dom.idx.url, "limit") = 1
        /\ Has(dom.idx.url, "filter", <<"mimetype:text/html">>)
        /\ Has(dom.idx.url, "filter", <<"statuscode:200">>)
        /\ Count(dom.idx.url, "filter") = 2
        /\ Has(dom.idx.url, "fl",
               <<"timestamp,original,mimetype,statuscode,digest,length">>)
        /\ (Has(dom.idx.url, "collapse", <<"digest">>) <=> req.unique)
        /\ (Count(dom.idx.url, "collapse") = 0 <=> ~req.unique)

\* the index is asked for the latest 20 captures, collapsed by digest
C29_Witness ==
    /\ entry = "get"
    /\ IndexAsked
    /\ req.n = 20
    /\ req.unique
    /\ Has(dom.idx.url, "limit", <<"-", "20">>)
    /\ Has(dom.idx.url, "collapse", <<"digest">>)

\* C30: getCdxRows discards exactly the first row of the index response as
\* header and maps every remaining row, in order, positionally to
\* (timestamp, original, mimetype, statuscode, digest, length): a response
\* of m rows yields m-1 records (0 for an empty response) and record i comes
\* from row i+1.
C30_HeaderDroppedRowsMappedInOrder ==
    dom.json # <<>> =>
        LET json == dom.json[1]
        IN  /\ Len(dom.rows) = IF json = <<>> THEN 0 ELSE Len(json) - 1
            /\ \A i \in 1..Len(dom.rows) :
                 /\ dom.rows[i].timestamp = At(json[i + 1], 1)
                 /\ dom.rows[i].original = At(json[i + 1], 2)
                 /\ dom.rows[i].mimetype = At(json[i + 1], 3)
                 /\ dom.rows[i].statuscode = At(json[i + 1], 4)
                 /\ dom.rows[i].digest = At(json[i + 1], 5)
                 /\ dom.rows[i].length =
                      IF Len(json[i + 1]) >= 6 THEN ToNumber(json[i + 1][6]) ELSE 0

\* the index answered with a header and two rows, the second without its
\* length: two records, in the order of the rows
C30_Witness ==
    /\ entry = "get"
    /\ dom.json = << <<Header, Row2, RowShort>> >>
    /\ Len(dom.rows) = 2
    /\ dom.rows[1].timestamp = "20230101000000"
    /\ dom.rows[1].length = 512
    /\ dom.rows[2].digest = "D3"
    /\ dom.rows[2].length = 0

(***************************************************************************)
(* Claim about the pacing of snapshot fetches, under SpecDomain.           *)
(***************************************************************************)
\* the snapshot tasks whose fetchRetry is pending
InFlight(d) == {k \in 1..Len(d.tasks) : d.tasks[k].pc = "fetch"}

\* C25: requests for archived documents are rate-limited: for one domain at
\* most one snapshot fetch is in flight at a time, and the next starts only
\* after the 150 ms pause that follows the previous one, in the CLI run and
\* in the server's processDomain alike.
C25_OneSnapshotFetchAtATime ==
    dom.pc = "snaps" =>
        /\ Cardinality(InFlight(dom)) <= 1
        /\ \A k \in InFlight(dom) : \A j \in 1..(k - 1) : dom.tasks[j].pc = "done"

(***************************************************************************)
(* SpecDisconnect: POST /api/extract whose caller goes away while the      *)
(* response is open.  The handler registers no listener on the request or  *)
(* the response (src/server.js 539-570), so nothing in it runs when the    *)
(* connection closes: stream goes on recording what it hands to res.write, *)
(* which Node drops.  hist keeps the point the handler had reached when    *)
(* the caller left.                                                        *)
(***************************************************************************)
\* the caller closes the connection of the open progress stream
ClientDisconnects ==
    /\ entry = "stream"
    /\ resp = Streaming
    /\ hist = <<>>
    /\ hist' = <<[kind |-> "close", pos |-> pos, written |-> Len(stream)]>>
    /\ UNCHANGED <<bulk, ui, call, entry, req, pos, dom, stream, resp>>

NextDisconnect ==
    \/ PostApiExtractOne
    \/ ClientDisconnects
    \/ IndexSettles
    \/ IndexTimer
    \/ SnapSettles
    \/ SnapTimer
    \/ ClassifierSettles
    \/ HandlerResumes

SpecDisconnect == InitServer /\ [][NextDisconnect]_vars

\* C27: when the caller disconnects from the progress stream of
\* POST /api/extract, the producing task stops emitting further events: no
\* progress, result or error event is written and no further domain is
\* started after the disconnect.
C27_DisconnectStopsProducer ==
    hist # <<>> =>
        /\ Len(stream) = hist[1].written
        /\ pos = hist[1].pos

(***************************************************************************)
(* SpecRequest: the requests fetchRetry hands to fetch, src/server.js      *)
(* 37-43 and src/unnamed/part_000 98-104.  An object is a function from    *)
(* its own property names; opts is the record of its optional members,     *)
(* <<>> where opts has no such member.  req holds the opts argument of the *)
(* call and hist the requests issued so far.                               *)
(***************************************************************************)
UserAgent == "wayback-cdx-extractor/1.0 (+https://example.local)"

NoHeaders == [k \in {} |-> ""]

\* { ...a, ...b }: the properties of b win
Spread(a, b) ==
    [k \in DOMAIN a \cup DOMAIN b |-> IF k \in DOMAIN b THEN b[k] ELSE a[k]]

\* the second argument of fetch:
\* { headers: { "user-agent": ..., ...(opts.headers || {}) }, ...opts }
FetchInit(opts) ==
    LET own == IF opts.headers # <<>> THEN opts.headers[1] ELSE NoHeaders
        headers == Spread([k \in {"user-agent"} |-> UserAgent], own)
    IN [headers |-> IF opts.headers # <<>> THEN opts.headers ELSE <<headers>>,
        method |-> opts.method,
        timeout |-> opts.timeout]

\* the request fetch sends for an init object: GET unless a method is given
Sent(url, init) ==
    [url |-> url,
     method |-> IF init.method # <<>> THEN init.method[1] ELSE "GET",
     headers |-> IF init.headers # <<>> THEN init.headers[1] ELSE NoHeaders]

\* the header objects a caller may pass
HeaderObjects ==
    {NoHeaders,
     [k \in {"accept"} |-> "text/html"],
     [k \in {"accept", "x-trace"} |-> IF k = "accept" THEN "text/html" ELSE "1"]}

\* opts of the callers in the repository (none, { timeout: 10000 }) and
\* opts with a headers object or a method
OptsValues ==
    {[headers |-> h, method |-> m, timeout |-> t] :
        h \in {<<>>} \cup {<<o>> : o \in HeaderObjects},
        m \in {<<>>, <<"GET">>},
        t \in {<<>>, <<10000>>}}

InitRequest ==
    /\ \E opts \in OptsValues, r \in 0..MaxRetries :
         /\ req = opts
         /\ call = FetchRetry(<<"u">>, r, DefaultBackoffMs)
         /\ hist = <<Sent(<<"u">>, FetchInit(opts))>>
    /\ entry = "fetchRetry"
    /\ pos = 0
    /\ dom = Idle
    /\ stream = <<>>
    /\ resp = NotStarted
    /\ bulk = NoBulk
    /\ ui = NoPage

\* the pending request settles
RequestSettles ==
    /\ call.pc = "fetch"
    /\ \E o \in {Transport("ECONNRESET"), Http(503, TextBody(10)),
                 Http(404, TextBody(10)), Http(200, TextBody(10))} :
         call' = OnResponse(call, o)
    /\ UNCHANGED <<bulk, ui, hist, entry, req, pos, dom, stream, resp>>

\* the backoff timer fires: the next iteration calls fetch again
RequestTimer ==
    /\ call.pc = "sleep"
    /\ \E f \in {OnTimer(call)} :
         /\ call' = f
         /\ hist' = IF f.pc = "fetch"
                      THEN Append(hist, Sent(f.url, FetchInit(req)))
                      ELSE hist
    /\ UNCHANGED <<bulk, ui, entry, req, pos, dom, stream, resp>>

NextRequest == RequestSettles \/ RequestTimer

SpecRequest == InitRequest /\ [][NextRequest]_vars

\* the headers the caller supplied
Supplied(opts) == IF opts.headers # <<>> THEN opts.headers[1] ELSE NoHeaders

\* C31: every request issued by fetchRetry is an HTTP GET carrying the fixed
\* user-agent together with the caller-supplied headers, for every opts the
\* caller passes, including opts that contain a headers object.
C31_EveryRequestSigned ==
    /\ Len(hist) = call.nreq
    /\ \A i \in 1..Len(hist) :
         /\ hist[i].method = "GET"
         /\ "user-agent" \in DOMAIN hist[i].headers
         /\ hist[i].headers["user-agent"] = UserAgent
         /\ \A k \in DOMAIN Supplied(req) :
              /\ k \in DOMAIN hist[i].headers
              /\ hist[i].headers[k] = Supplied(req)[k]

(***************************************************************************)
(* SpecBulk: POST /api/v1/extract asking for two snapshots per domain.     *)
(***************************************************************************)
\* a POST /api/v1/extract request with snapshots = 2 arrives
PostApiV1ExtractTwo ==
    /\ entry = "none"
    /\ \E m \in 1..MaxDomains :
         \E r \in {Request([t |-> "array", items |-> [k \in 1..m |-> Str(<<"a">>)]],
                           2, FALSE, <<FALSE, "">>)} :
             \E b \in {BulkHandler(r)} :
                 /\ req' = r
                 /\ bulk' = b
                 /\ resp' = BulkResponse(b)
    /\ entry' = "bulk"
    /\ UNCHANGED <<ui, call, hist, pos, dom, stream>>

NextBulk ==
    \/ PostApiV1ExtractTwo
    \/ BulkIndexSettles
    \/ BulkIndexTimer
    \/ BulkSnapSettles
    \/ BulkSnapTimer

SpecBulk == InitServer /\ [][NextBulk]_vars

\* the snapshot requests pending at the archive: task j of the activation
\* of bulk task k
BulkInFlight ==
    {<<k, j>> \in (1..Len(bulk.tasks)) \X (1..MaxRows) :
        /\ bulk.tasks[k].pc = "run"
        /\ bulk.tasks[k].act.pc = "snaps"
        /\ j <= Len(bulk.tasks[k].act.tasks)
        /\ bulk.tasks[k].act.tasks[j].pc = "fetch"
        /\ bulk.tasks[k].act.tasks[j].call.pc = "fetch"}

\* C32: on the bulk endpoint a per-domain concurrency cap bounds the number
\* of snapshot fetches in flight at the same time, so that it stays below
\* (number of domains x snapshot count).
C32_InFlightBelowBatchTimesCount ==
    (entry = "bulk" /\ Len(req.domains.items) * req.n > 1) =>
        Cardinality(BulkInFlight) < Len(req.domains.items) * req.n

(***************************************************************************)
(* Claims about the order of the checks of isSpamDomain, under             *)
(* SpecClassify.                                                           *)
(***************************************************************************)
\* the categories of the keywords that match a text, in list order
KeywordHits(text) ==
    LET hit(k) == matchesSpamKeyword(text, k)
    IN  [i \in 1..Len(SelectSeq(spamKeywords, hit)) |->
            categorizeSpam(SelectSeq(spamKeywords, hit)[i])]

\* what a snapshot can match: keywords on its text, then its category
SnapshotHits(snapshot) ==
    KeywordHits(toLowerCase(snapshot.title) \o <<" ">> \o toLowerCase(snapshot.description))
      \o (IF snapshot.category # <<>> /\ isSpamCategory(snapshot.category[1])
            THEN snapshot.category ELSE <<>>)

RECURSIVE HitsOfSnapshots(_)
HitsOfSnapshots(snapshots) ==
    IF snapshots = <<>> THEN <<>>
    ELSE SnapshotHits(Head(snapshots)) \o HitsOfSnapshots(Tail(snapshots))

\* every match of a result in the order of the checks: the domain name,
\* then the snapshots one after the other
AllHits(d) == KeywordHits(toLowerCase(d.domain)) \o HitsOfSnapshots(d.snapshots)

\* C33: isSpamDomain assigns at most one spamCategory per evaluation and the
\* first match wins: the domain name is checked before snapshot text,
\* keywords in list order and snapshots in sequence order; the category is
\* that of the first match, and later matches neither change nor add to it.
C33_FirstMatchWins ==
    Rendered =>
        \A i \in 1..Len(ui.results) :
            LET d == ui.results[i]
            IN  IF isLegitimatePattern(toLowerCase(d.domain)) \/ AllHits(d) = <<>>
                  THEN d.spamCategory = <<>>
                  ELSE d.spamCategory = <<Head(AllHits(d))>> /\ OnSpamSide(d)

\* a result whose first snapshot matches both keywords, loan before xxx in
\* its text, and whose second snapshot matches loan again: the category is
\* that of xxx, the first keyword of the list
C33_Witness ==
    /\ Rendered
    /\ \E i \in 1..Len(ui.results) :
         /\ ui.results[i].domain = <<"s">>
         /\ Len(ui.results[i].snapshots) = 2
         /\ ui.results[i].snapshots[1].title = <<"L", "o", "a", "n">>
         /\ ui.results[i].snapshots[1].description = Xxx
         /\ Len(AllHits(ui.results[i])) = 3
         /\ ui.results[i].spamCategory = <<"Contenu adulte">>

\* the seven spam categories of the changelog (README.md, v1.2.0)
SevenSpamCategories ==
    {"Casino/Jeux", "Contenu adulte", "Pharma/Sante", "Finance suspect",
     "Contrefacon", "Piratage", "Spam generique"}

\* no keyword matches the domain name or the text of snapshots 1..k
NoKeywordUpTo(d, k) ==
    /\ KeywordHits(toLowerCase(d.domain)) = <<>>
    /\ \A j \in 1..k :
         KeywordHits(toLowerCase(d.snapshots[j].title) \o <<" ">>
                       \o toLowerCase(d.snapshots[j].description)) = <<>>

\* C34: a Tier 2 category that is any of the seven spam categories on a
\* snapshot makes isSpamDomain classify the domain as spam with that
\* category, when the domain matches no legitimate pattern and no keyword
\* (and no category of an earlier snapshot) matched earlier.
C34_SevenCategoriesMeanSpam ==
    Rendered =>
        \A d \in Shown : \A k \in 1..Len(d.snapshots) :
            ( /\ d.snapshots[k].category # <<>>
              /\ d.snapshots[k].category[1] \in SevenSpamCategories
              /\ ~isLegitimatePattern(toLowerCase(d.domain))
              /\ NoKeywordUpTo(d, k)
              /\ \A j \in 1..(k - 1) : d.snapshots[j].category = <<>> )
            => (OnSpamSide(d) /\ d.spamCategory = d.snapshots[k].category)

(***************************************************************************)
(* Claim about the order of the streamed events, under SpecStream.         *)
(***************************************************************************)
\* line i of the stream is the terminal event of element k of the batch
ClosesElement(i, k) ==
    \/ /\ stream[i].type = "error"
       /\ stream[i].domain = req.domains.items[k]
    \/ /\ stream[i].type = "result"
       /\ req.domains.items[k].t = "str"
       /\ stream[i].domain = Str(Trim(req.domains.items[k].v))

\* C35: POST /api/extract processes the domains strictly one at a time in
\* request order: the stream is progress 1, terminal 1, progress 2,
\* terminal 2, ...; a domain is in progress only between its two events, so
\* never two at once; and the response is ended only after the terminal
\* event of the last domain.
C35_OneDomainAtATimeInOrder ==
    (entry = "stream" /\ req.domains.t = "array") =>
        /\ Len(stream) <= 2 * Len(req.domains.items)
        /\ \A i \in 1..Len(stream) :
             IF i % 2 = 1
               THEN stream[i] = ProgressEvent(req.domains.items[(i + 1) \div 2])
               ELSE ClosesElement(i, i \div 2)
        /\ dom.pc # "idle" => (Len(stream) % 2 = 1 /\ pos = (Len(stream) + 1) \div 2)
        /\ dom.pc = "idle" => Len(stream) % 2 = 0
        /\ resp.ended <=> (dom.pc = "idle" /\ Len(stream) = 2 * Len(req.domains.items))

\* the second domain of a batch of two is in progress: three lines so far,
\* the second of them the result of the first domain
C35_Witness ==
    /\ entry = "stream"
    /\ Len(req.domains.items) = 2
    /\ dom.pc = "snaps"
    /\ pos = 2
    /\ Len(stream) = 3
    /\ stream[2].type = "result"
    /\ stream[3].type = "progress"
    /\ ~resp.ended

(***************************************************************************)
(* SpecPartition: the page holds some results and draws its two columns    *)
(* again and again.  Each draw evaluates both getters; filter keeps the    *)
(* objects of results, which carry what isSpamDomain wrote into them.      *)
(***************************************************************************)
MaxResults == 2      \* results on the page
MaxDraws == 2        \* evaluations of the two getters

\* results as the stream brings them, and results that already carry a
\* spamCategory of an earlier evaluation
PageResults ==
    [domain : {<<"s">>, Xxx, App \o Loan},
     snapshots : {<<>>,
                  <<[title |-> Loan, description |-> <<>>, category |-> <<>>]>>,
                  <<[title |-> <<"s">>, description |-> <<>>, category |-> <<"Clean">>]>>,
                  <<[title |-> <<"s">>, description |-> <<>>, category |-> <<"Casino/Jeux">>]>>,
                  <<[title |-> <<"s">>, description |-> <<>>,
                     category |-> <<"Spam generique">>]>>},
     spamCategory : {<<>>, <<"Piratage">>}]

InitPartition ==
    /\ call = NoCall
    /\ hist = <<>>
    /\ entry = "none"
    /\ req = NoRequest
    /\ pos = 0
    /\ dom = Idle
    /\ stream = <<>>
    /\ resp = NotStarted
    /\ bulk = NoBulk
    /\ \E n \in 0..MaxResults : \E results \in [1..n -> PageResults] :
         ui = [NoPage EXCEPT !.pc = "done", !.results = results, !.completedDomains = n]

\* the page is drawn: both getters are evaluated on the results
Draw ==
    /\ Len(ui.columns) < MaxDraws
    /\ \E marked \in {Marked(ui.results)} :
         ui' = [ui EXCEPT !.results = marked,
                          !.columns = Append(@, [clean |-> cleanSites(marked),
                                                 spam |-> spamSites(marked)])]
    /\ ServerIdle

SpecPartition == InitPartition /\ [][Draw]_vars

\* how often a list holds the result of the given domain and snapshots
Times(list, d) ==
    Cardinality({i \in 1..Len(list) :
                    list[i].domain = d.domain /\ list[i].snapshots = d.snapshots})

\* C36: cleanSites and spamSites partition results: for any content of
\* results every DomainResult is in exactly one of the two lists, so
\* |cleanSites| + |spamSites| = |results|, and evaluating the classification
\* again on the same results gives the same partition.
C36_ColumnsPartitionResults ==
    \A j \in 1..Len(ui.columns) :
        LET c == ui.columns[j]
        IN  /\ Len(c.clean) + Len(c.spam) = Len(ui.results)
            /\ \A i \in 1..Len(ui.results) :
                 /\ Times(c.clean, ui.results[i]) + Times(c.spam, ui.results[i])
                      = Times(ui.results, ui.results[i])
                 /\ Times(c.clean, ui.results[i]) = 0 \/ Times(c.spam, ui.results[i]) = 0
            /\ c = ui.columns[1]

\* two results, one of them spam, one clean with a category left by an
\* earlier evaluation, drawn twice: one in each column both times
C36_Witness ==
    /\ Len(ui.columns) = 2
    /\ Len(ui.results) = 2
    /\ ui.results[1].domain = Xxx
    /\ ui.results[2].domain = <<"s">>
    /\ ui.results[2].snapshots = <<>>
    /\ ui.results[2].spamCategory = <<"Piratage">>
    /\ Len(ui.columns[2].spam) = 1
    /\ Len(ui.columns[2].clean) = 1
    /\ ui.columns[2].clean[1].domain = <<"s">>
====
